---- MODULE Spec2Model ----
(***************************************************************************)
(* A model of the source-structure extraction engine of code-to-doc-demo:  *)
(* PythonASTParser (src/src/tools/python_ast_parser.py) and the file it    *)
(* reads.  A syntax tree is a sequence of node records in the order        *)
(* ast.iter_child_nodes yields them (node 1 is the Module); the parser's   *)
(* instance fields, the list objects they refer to and every call's locals *)
(* are the state.                                                          *)
(***************************************************************************)
EXTENDS Integers, Sequences, FiniteSets, TLC

(***************************************************************************)
(* Bounds of the model.                                                    *)
(***************************************************************************)
\* nodes below the Module node of a generated tree
MaxNodes == 3
\* parse calls started in one behaviour
MaxCalls == 2
\* PythonASTParser instances constructed after the first
MaxParsers == 1
\* positional-only parameters of a written header
MaxPosOnly == 2
\* plain positional parameters of a written header
MaxArgs == 2
\* characters of a written name
MaxNameLen == 5

(***************************************************************************)
(* Values.                                                                 *)
(***************************************************************************)
\* Python's None
None == "None"

\* where the allocator may put the tree of one ast.parse call
Addrs == {"7f9b8ec3", "7f9b8ec4"}

\* node kinds that ast.walk visits and some handler of the parser inspects
DefKinds == {"FunctionDef", "AsyncFunctionDef", "ClassDef"}
ImportKinds == {"Import", "ImportFrom"}
BlockKinds == {"If", "For", "While", "Try", "With", "AsyncFor", "AsyncWith"}
ExprKinds == {"BoolOp", "Name", "Attribute", "Subscript", "Call"}
BodyOwners == {"Module", "ExceptHandler"} \cup DefKinds \cup BlockKinds

\* An annotation or default expression of a header.  It is a Name, a
\* Constant or another expression without calls and attribute references
\* (those are nodes of the tree); an optional field holds <<>> or <<value>>.
NameExpr(id) == [kind |-> "Name", id |-> id, type |-> "", text |-> ""]

ConstantExpr(type, text) == [kind |-> "Constant", id |-> "", type |-> type, text |-> text]

BinOpExpr == [kind |-> "BinOp", id |-> "", type |-> "", text |-> ""]

\* ast.arg
Arg(arg, annotation) == [arg |-> arg, annotation |-> annotation]

\* ast.arguments
Arguments(posonlyargs, args, vararg, kwonlyargs, kw_defaults, kwarg, defaults) ==
  [posonlyargs |-> posonlyargs, args |-> args, vararg |-> vararg,
   kwonlyargs |-> kwonlyargs, kw_defaults |-> kw_defaults, kwarg |-> kwarg,
   defaults |-> defaults]

\* the arguments of "()"
NoArgs == Arguments(<<>>, <<>>, <<>>, <<>>, <<>>, <<>>, <<>>)

\* One node: the field of the parent that holds it, its name (name, id,
\* attr or module), its line, the number of operands of a BoolOp and the
\* alias names of an import; a definition also has args, returns and, when
\* its body starts with a string, that string as doc.
Node(kind, parent, field, name, line, k, names) ==
  [kind |-> kind, parent |-> parent, field |-> field, name |-> name,
   line |-> line, k |-> k, names |-> names, args |-> NoArgs, returns |-> <<>>,
   doc |-> <<>>]

ModuleNode == Node("Module", 0, "", "", 0, 0, <<>>)

\* identifiers given to the definitions of a generated tree, by position
GenNames == <<"a", "b", "_c", "d", "e">>

GenName(i) == GenNames[((i - 1) % Len(GenNames)) + 1]

(***************************************************************************)
(* Trees.                                                                  *)
(***************************************************************************)
\* ast.iter_child_nodes: the children of node i, in field order
Children(tree, i) == {j \in 1..Len(tree) : tree[j].parent = i}

RECURSIVE SetToSeq(_)
\* a set of node indexes as the increasing sequence
SetToSeq(S) ==
  IF S = {} THEN <<>>
  ELSE LET m == CHOOSE x \in S : \A y \in S : x <= y
       IN <<m>> \o SetToSeq(S \ {m})

ChildSeq(tree, i) == SetToSeq(Children(tree, i))

RECURSIVE Ancestors(_, _)
\* node i and the nodes above it
Ancestors(tree, i) ==
  IF i = 0 THEN {} ELSE {i} \cup Ancestors(tree, tree[i].parent)

RECURSIVE Descendants(_, _)
\* ast.walk(node) as a set: the node and everything below it
Descendants(tree, i) ==
  {i} \cup UNION {Descendants(tree, j) : j \in Children(tree, i)}

RECURSIVE WalkFrom(_, _)
\* ast.walk: pop the left end of the deque, append the node's children
WalkFrom(tree, todo) ==
  IF todo = <<>> THEN <<>>
  ELSE <<Head(todo)>> \o WalkFrom(tree, Tail(todo) \o ChildSeq(tree, Head(todo)))

\* the line a node appended to tree gets: statements and handlers take a
\* line each, an expression stays on the line of its statement
NextLine(tree, kind) ==
  LET last == tree[Len(tree)].line
  IN IF kind \in ExprKinds THEN last ELSE last + 1

\* the kinds a generated tree is made of
GenStmtKinds == {"FunctionDef", "AsyncFunctionDef", "ClassDef", "If", "AsyncFor", "Try"}

\* the nodes the grammar allows after the last node of tree
Extensions(tree) ==
  LET n == Len(tree)
      path == {p \in Ancestors(tree, n) : tree[p].kind \in BodyOwners}
      stmts == {Node(kd, p, "body", IF kd \in DefKinds THEN GenName(n) ELSE "",
                     NextLine(tree, kd), 0, <<>>) :
                  kd \in GenStmtKinds, p \in path}
      handlers == {Node("ExceptHandler", p, "handlers", "", NextLine(tree, "ExceptHandler"), 0, <<>>) :
                     p \in {q \in Ancestors(tree, n) : tree[q].kind = "Try"}}
      tests == IF tree[n].kind = "If"
               THEN {Node("BoolOp", n, "test", "", NextLine(tree, "BoolOp"), k, <<>>) : k \in {2, 3}}
               ELSE {}
  IN stmts \cup handlers \cup tests

(***************************************************************************)
(* Name helpers of the parser.                                             *)
(***************************************************************************)
\* the child of node i in field f, 0 when there is none
FieldChild(tree, i, f) ==
  LET c == {j \in Children(tree, i) : tree[j].field = f}
  IN IF c = {} THEN 0 ELSE CHOOSE j \in c : \A m \in c : j <= m

\* the children of node i in field f, in order
FieldSeq(tree, i, f) ==
  SetToSeq({j \in Children(tree, i) : tree[j].field = f})

RECURSIVE JoinStr(_, _)
\* sep.join(parts)
JoinStr(parts, sep) ==
  IF parts = <<>> THEN ""
  ELSE IF Len(parts) = 1 THEN parts[1]
  ELSE parts[1] \o sep \o JoinStr(Tail(parts), sep)

\* str(node) of an ast object: the default repr, which holds its address
ObjRepr(tree, i, addr) ==
  "<ast." \o tree[i].kind \o " object at 0x" \o addr \o ToString(i) \o ">"

RECURSIVE GetAttributeChain(_, _)
\* _get_attribute_chain: the attrs down to a Name, joined by dots
GetAttributeChain(tree, i) ==
  IF i = 0 THEN ""
  ELSE IF tree[i].kind = "Attribute"
  THEN LET pre == GetAttributeChain(tree, FieldChild(tree, i, "value"))
       IN IF pre = "" THEN tree[i].name ELSE pre \o "." \o tree[i].name
  ELSE IF tree[i].kind = "Name" THEN tree[i].name
  ELSE ""

\* _get_call_name
GetCallName(tree, i) ==
  IF i = 0 THEN ""
  ELSE IF tree[i].kind = "Name" THEN tree[i].name
  ELSE IF tree[i].kind = "Attribute" THEN GetAttributeChain(tree, i)
  ELSE ""

\* _get_name
GetName(tree, i, addr) ==
  IF tree[i].kind = "Name" THEN tree[i].name
  ELSE IF tree[i].kind = "Attribute" THEN GetAttributeChain(tree, i)
  ELSE ObjRepr(tree, i, addr)

\* _get_decorator_name
GetDecoratorName(tree, i, addr) ==
  IF tree[i].kind = "Name" THEN tree[i].name
  ELSE IF tree[i].kind = "Attribute" THEN GetAttributeChain(tree, i)
  ELSE IF tree[i].kind = "Call" THEN GetCallName(tree, FieldChild(tree, i, "func"))
  ELSE ObjRepr(tree, i, addr)

\* the decorators comprehension of _extract_function and _extract_class
Decorators(tree, i, addr) ==
  LET ds == FieldSeq(tree, i, "decorator_list")
  IN [n \in 1..Len(ds) |-> GetDecoratorName(tree, ds[n], addr)]

(***************************************************************************)
(* Complexity and dependencies.                                            *)
(***************************************************************************)
\* what one node visited by _calculate_complexity adds
ComplexityOf(node) ==
  IF node.kind \in {"If", "For", "While", "Try", "With"} THEN 1
  ELSE IF node.kind = "BoolOp" THEN node.k - 1
  ELSE IF node.kind = "ExceptHandler" THEN 1
  ELSE 0

RECURSIVE SumComplexity(_, _)
SumComplexity(tree, S) ==
  IF S = {} THEN 0
  ELSE LET j == CHOOSE m \in S : TRUE
       IN ComplexityOf(tree[j]) + SumComplexity(tree, S \ {j})

\* _calculate_complexity started at 0 instead of the base 1.0
CalculateComplexity_NoBase(tree, i) == SumComplexity(tree, Descendants(tree, i))

\* _calculate_complexity that stops at the definitions inside the callable
CalculateComplexity_OwnBodyOnly(tree, i) ==
  1 + SumComplexity(tree,
        {j \in Descendants(tree, i) :
           \A a \in Ancestors(tree, j) \cap Descendants(tree, i) :
             a = i \/ tree[a].kind \notin {"FunctionDef", "AsyncFunctionDef"}})

\* _calculate_complexity
CalculateComplexity(tree, i) == 1 + SumComplexity(tree, Descendants(tree, i))

\* the name a node visited by _extract_dependencies adds, "" for none
DependencyOf(tree, j) ==
  IF tree[j].kind = "Call" THEN GetCallName(tree, FieldChild(tree, j, "func"))
  ELSE IF tree[j].kind = "Attribute" THEN GetAttributeChain(tree, j)
  ELSE ""

RECURSIVE Dedupe(_, _)
\* the distinct non-empty names of a sequence, by first occurrence
Dedupe(names, seen) ==
  IF names = <<>> THEN <<>>
  ELSE IF Head(names) = "" \/ Head(names) \in seen THEN Dedupe(Tail(names), seen)
  ELSE <<Head(names)>> \o Dedupe(Tail(names), seen \cup {Head(names)})

\* reversed(s)
Reverse(s) == [n \in 1..Len(s) |-> s[Len(s) + 1 - n]]

\* list(set): the iteration order of a set of str is fixed by the hash seed
\* of the process and the order of insertion
ListOfSet(inserted, seed) ==
  IF seed = 0 THEN Dedupe(inserted, {}) ELSE Reverse(Dedupe(inserted, {}))

\* _extract_dependencies
ExtractDependencies(tree, i, seed) ==
  LET order == WalkFrom(tree, <<i>>)
  IN ListOfSet([n \in 1..Len(order) |-> DependencyOf(tree, order[n])], seed)

(***************************************************************************)
(* Elements.                                                               *)
(***************************************************************************)
\* truth value of self.current_class
Truthy(v) == v # None /\ v # ""

\* line 108 with the slot compared to the empty string
ElementType_NotEmpty(current_class) ==
  IF current_class # "" THEN "method" ELSE "function"

\* line 108
ElementType(current_class) ==
  IF Truthy(current_class) THEN "method" ELSE "function"

\* line 111
FullName(current_class, name) ==
  IF Truthy(current_class) THEN current_class \o "." \o name ELSE name

RECURSIVE MaxLine(_, _)
MaxLine(tree, S) ==
  IF S = {} THEN 0
  ELSE LET j == CHOOSE m \in S : TRUE
           rest == MaxLine(tree, S \ {j})
       IN IF tree[j].line > rest THEN tree[j].line ELSE rest

\* node.end_lineno: the last line of the subtree
EndLine(tree, i) == MaxLine(tree, Descendants(tree, i))

\* str.startswith and str.endswith
StartsWith(s, prefix) ==
  Len(s) >= Len(prefix) /\ SubSeq(s, 1, Len(prefix)) = prefix

EndsWith(s, suffix) ==
  Len(s) >= Len(suffix) /\ SubSeq(s, Len(s) - Len(suffix) + 1, Len(s)) = suffix

\* _determine_visibility with the single-underscore test first
DetermineVisibility_SingleFirst(name) ==
  IF StartsWith(name, "__") /\ EndsWith(name, "__") THEN "public"
  ELSE IF StartsWith(name, "_") THEN "protected"
  ELSE IF StartsWith(name, "__") THEN "private"
  ELSE "public"

\* _determine_visibility
DetermineVisibility(name) ==
  IF StartsWith(name, "__") /\ EndsWith(name, "__") THEN "public"
  ELSE IF StartsWith(name, "__") THEN "private"
  ELSE IF StartsWith(name, "_") THEN "protected"
  ELSE "public"

\* repr of the value of a Constant
Repr(e) == IF e.type = "str" THEN "'" \o e.text \o "'" ELSE e.text

\* _get_annotation
GetAnnotation(e) ==
  IF e.kind = "Name" THEN e.id
  ELSE IF e.kind = "Constant" THEN Repr(e)
  ELSE "Any"

\* _get_default_value
GetDefaultValue(e) ==
  IF e.kind = "Constant" THEN Repr(e)
  ELSE IF e.kind = "Name" THEN e.id
  ELSE "..."

\* one parameter as lines 217-220, 233-235 and 240-242 write it
ArgStr(prefix, a) ==
  IF a.annotation # <<>>
  THEN prefix \o a.arg \o ": " \o GetAnnotation(a.annotation[1])
  ELSE prefix \o a.arg

RECURSIVE ApplyDefaults(_, _, _, _)
\* the loop of lines 226-229 from its i-th round on (i counts from 0): a
\* list index below 0 counts from the end, one below -len is an IndexError
ApplyDefaults(args, defaults, default_offset, i) ==
  IF i >= Len(defaults) THEN [raises |-> FALSE, args |-> args]
  ELSE LET k == default_offset + i
       IN IF ~(k < Len(args))
          THEN ApplyDefaults(args, defaults, default_offset, i + 1)
          ELSE IF k < -Len(args) THEN [raises |-> TRUE, args |-> args]
          ELSE LET pos == IF k < 0 THEN Len(args) + k + 1 ELSE k + 1
               IN ApplyDefaults(
                    [args EXCEPT ![pos] = @ \o " = " \o GetDefaultValue(defaults[i + 1])],
                    defaults, default_offset, i + 1)

\* the list args of _build_signature when line 244 joins it (lines 213-242)
SignatureArgs(node) ==
  LET regular == [n \in 1..Len(node.args.args) |-> ArgStr("", node.args.args[n])]
      applied == IF node.args.defaults # <<>>
                 THEN ApplyDefaults(regular, node.args.defaults,
                                    Len(regular) - Len(node.args.defaults), 0)
                 ELSE [raises |-> FALSE, args |-> regular]
      vararg == IF node.args.vararg # <<>>
                THEN <<ArgStr("*", node.args.vararg[1])>> ELSE <<>>
      kwarg == IF node.args.kwarg # <<>>
               THEN <<ArgStr("**", node.args.kwarg[1])>> ELSE <<>>
  IN [raises |-> applied.raises, args |-> applied.args \o vararg \o kwarg]

\* _build_signature that appends the return annotation after the colon
BuildSignature_ColonFirst(node, is_async) ==
  LET prefix == IF is_async THEN "async def" ELSE "def"
      built == SignatureArgs(node)
      signature == prefix \o " " \o node.name \o "(" \o JoinStr(built.args, ", ") \o "):"
  IN [raises |-> built.raises,
      value |-> IF node.returns # <<>>
                THEN signature \o " -> " \o GetAnnotation(node.returns[1])
                ELSE signature]

\* _build_signature: the string, or the IndexError of line 229
BuildSignature(node, is_async) ==
  LET prefix == IF is_async THEN "async def" ELSE "def"
      built == SignatureArgs(node)
      signature == prefix \o " " \o node.name \o "(" \o JoinStr(built.args, ", ") \o ")"
  IN [raises |-> built.raises,
      value |-> (IF node.returns # <<>>
                 THEN signature \o " -> " \o GetAnnotation(node.returns[1])
                 ELSE signature) \o ":"]

\* one record of _extract_parameters (lines 259-273), i counted from 1;
\* default holds <<>> for None and <<d>> for the string d
Parameter(args, i) ==
  LET arg == args.args[i]
      first == Len(args.args) - Len(args.defaults)
      has_default == args.defaults # <<>> /\ i - 1 >= first
  IN [name |-> arg.arg,
      type |-> IF arg.annotation # <<>> THEN GetAnnotation(arg.annotation[1]) ELSE "Any",
      required |-> ~has_default,
      default |-> IF has_default
                  THEN <<GetDefaultValue(args.defaults[(i - 1) - first + 1])>>
                  ELSE <<>>]

\* _extract_parameters that leaves required True on every record
ExtractParameters_AllRequired(args) ==
  [i \in 1..Len(args.args) |-> [Parameter(args, i) EXCEPT !.required = TRUE]]

\* _extract_parameters
ExtractParameters(args) ==
  [i \in 1..Len(args.args) |-> Parameter(args, i)]

\* _extract_return_type
ExtractReturnType(node) ==
  IF node.returns # <<>> THEN GetAnnotation(node.returns[1]) ELSE "Any"

\* ast.get_docstring(node) or ""
GetDocstring(node) == IF node.doc = <<>> THEN "" ELSE node.doc[1]

\* lines 114-159 of _extract_function; node names the ast node the element
\* was built from
ExtractFunction(tree, i, is_async, element_type, full_name, current_class, seed, addr) ==
  [element_type |-> element_type,
   name |-> tree[i].name,
   full_name |-> full_name,
   signature |-> BuildSignature(tree[i], is_async).value,
   docstring |-> GetDocstring(tree[i]),
   parameters |-> ExtractParameters(tree[i].args),
   return_type |-> ExtractReturnType(tree[i]),
   visibility |-> DetermineVisibility(tree[i].name),
   start_line |-> tree[i].line,
   end_line |-> EndLine(tree, i),
   complexity_score |-> CalculateComplexity(tree, i),
   dependencies |-> ExtractDependencies(tree, i, seed),
   is_async |-> is_async,
   decorators |-> Decorators(tree, i, addr),
   parent_class |-> current_class,
   node |-> i]

\* lines 167-203 of _extract_class
ExtractClass(tree, i, addr) ==
  LET bases == FieldSeq(tree, i, "bases")
      base_classes == [n \in 1..Len(bases) |-> GetName(tree, bases[n], addr)]
  IN [element_type |-> "class",
      name |-> tree[i].name,
      full_name |-> tree[i].name,
      docstring |-> GetDocstring(tree[i]),
      signature |-> IF base_classes # <<>>
                    THEN "class " \o tree[i].name \o "(" \o JoinStr(base_classes, ", ") \o "):"
                    ELSE "class " \o tree[i].name \o ":",
      start_line |-> tree[i].line,
      end_line |-> EndLine(tree, i),
      complexity_score |-> 1,
      dependencies |-> base_classes,
      is_async |-> FALSE,
      decorators |-> Decorators(tree, i, addr),
      parameters |-> <<>>,
      return_type |-> "",
      visibility |-> DetermineVisibility(tree[i].name),
      parent_class |-> None,
      node |-> i]

\* the entries one alias of an import node appends (lines 326-335)
ImportEntry(node, n) ==
  IF node.kind = "Import" THEN node.names[n]
  ELSE IF node.names[n] = "*" THEN node.name \o ".*"
  ELSE node.name \o "." \o node.names[n]

(***************************************************************************)
(* Source texts.  A content is a text: the tree ast.parse builds from it   *)
(* when the grammar accepts it, the message of the SyntaxError otherwise.  *)
(***************************************************************************)
Content(ok, tree, msg) == [ok |-> ok, tree |-> tree, msg |-> msg]

\* class Widget:
\*     def resize(self, factor: float = 1.0):
\*         pass
SrcWidget ==
  Content(TRUE, <<ModuleNode,
    Node("ClassDef", 1, "body", "Widget", 1, 0, <<>>),
    Node("FunctionDef", 2, "body", "resize", 2, 0, <<>>)>>, "")

\* def f():
\*     def g():
\*         pass
\* def h():
\*     pass
SrcNested ==
  Content(TRUE, <<ModuleNode,
    Node("FunctionDef", 1, "body", "f", 1, 0, <<>>),
    Node("FunctionDef", 2, "body", "g", 2, 0, <<>>),
    Node("FunctionDef", 1, "body", "h", 4, 0, <<>>)>>, "")

\* import typing
\* class Box(typing.Generic[T]):
\*     pass
SrcGeneric ==
  Content(TRUE, <<ModuleNode,
    Node("Import", 1, "body", "", 1, 0, <<"typing">>),
    Node("ClassDef", 1, "body", "Box", 2, 0, <<>>),
    Node("Subscript", 3, "bases", "", 2, 0, <<>>),
    Node("Attribute", 4, "value", "Generic", 2, 0, <<>>),
    Node("Name", 4, "slice", "T", 2, 0, <<>>),
    Node("Name", 5, "value", "typing", 2, 0, <<>>)>>, "")

\* import os, sys
\* from pkg import *
\* def cwd():
\*     os.getcwd()
SrcImports ==
  Content(TRUE, <<ModuleNode,
    Node("Import", 1, "body", "", 1, 0, <<"os", "sys">>),
    Node("ImportFrom", 1, "body", "pkg", 2, 0, <<"*">>),
    Node("FunctionDef", 1, "body", "cwd", 3, 0, <<>>),
    Node("Expr", 4, "body", "", 4, 0, <<>>),
    Node("Call", 5, "value", "", 4, 0, <<>>),
    Node("Attribute", 6, "func", "getcwd", 4, 0, <<>>),
    Node("Name", 7, "value", "os", 4, 0, <<>>)>>, "")

\* def check(a, b):
\*     if a and b:
\*         pass
\*     try:
\*         pass
\*     except E:
\*         pass
SrcScenarioC ==
  Content(TRUE, <<ModuleNode,
    Node("FunctionDef", 1, "body", "check", 1, 0, <<>>),
    Node("If", 2, "body", "", 2, 0, <<>>),
    Node("BoolOp", 3, "test", "", 2, 2, <<>>),
    Node("Try", 2, "body", "", 4, 0, <<>>),
    Node("ExceptHandler", 5, "handlers", "", 6, 0, <<>>)>>, "")

\* async def pump(q):
\*     async with q:
\*         while q:
\*             pass
SrcAsync ==
  Content(TRUE, <<ModuleNode,
    Node("AsyncFunctionDef", 1, "body", "pump", 1, 0, <<>>),
    Node("AsyncWith", 2, "body", "", 2, 0, <<>>),
    Node("While", 3, "body", "", 3, 0, <<>>)>>, "")

\* class A(B, m.C, B):
\*     pass
SrcBases ==
  Content(TRUE, <<ModuleNode,
    Node("ClassDef", 1, "body", "A", 1, 0, <<>>),
    Node("Name", 2, "bases", "B", 1, 0, <<>>),
    Node("Attribute", 2, "bases", "C", 1, 0, <<>>),
    Node("Name", 2, "bases", "B", 1, 0, <<>>),
    Node("Name", 4, "value", "m", 1, 0, <<>>)>>, "")

\* try:
\*     import fast
\* except ImportError:
\*     import slow as fast
\* def load():
\*     import json
\* class K:
\*     from m import n
\* import os
\* import os
SrcLocalImports ==
  Content(TRUE, <<ModuleNode,
    Node("Try", 1, "body", "", 1, 0, <<>>),
    Node("FunctionDef", 1, "body", "load", 5, 0, <<>>),
    Node("ClassDef", 1, "body", "K", 7, 0, <<>>),
    Node("Import", 1, "body", "", 9, 0, <<"os">>),
    Node("Import", 1, "body", "", 10, 0, <<"os">>),
    Node("Import", 2, "body", "", 2, 0, <<"fast">>),
    Node("ExceptHandler", 2, "handlers", "", 3, 0, <<>>),
    Node("Import", 3, "body", "", 6, 0, <<"json">>),
    Node("ImportFrom", 4, "body", "m", 8, 0, <<"n">>),
    Node("Import", 8, "body", "", 4, 0, <<"slow">>)>>, "")

\* @app.route("/")
\* def index():
\*     render()
SrcDecorated ==
  Content(TRUE, <<ModuleNode,
    Node("FunctionDef", 1, "body", "index", 2, 0, <<>>),
    Node("Expr", 2, "body", "", 3, 0, <<>>),
    Node("Call", 2, "decorator_list", "", 1, 0, <<>>),
    Node("Call", 3, "value", "", 3, 0, <<>>),
    Node("Attribute", 4, "func", "route", 1, 0, <<>>),
    Node("Name", 5, "func", "render", 3, 0, <<>>),
    Node("Name", 6, "value", "app", 1, 0, <<>>)>>, "")

\* def run():
\*     """Run the first."""
SrcRunA ==
  Content(TRUE, <<ModuleNode,
    [Node("FunctionDef", 1, "body", "run", 1, 0, <<>>) EXCEPT
       !.doc = <<"Run the first.">>]>>, "")

\* # the second
\* def run():
\*     """Run the second."""
SrcRunB ==
  Content(TRUE, <<ModuleNode,
    [Node("FunctionDef", 1, "body", "run", 2, 0, <<>>) EXCEPT
       !.doc = <<"Run the second.">>]>>, "")

\* import math
\* class Circle:
\*     def area(self):
\*         """Area of a circle."""
\* class Square:
\*     def area(self):
\*         """Area of a square."""
\*     def side(self):
\*         pass
SrcShapes ==
  Content(TRUE, <<ModuleNode,
    Node("Import", 1, "body", "", 1, 0, <<"math">>),
    Node("ClassDef", 1, "body", "Circle", 2, 0, <<>>),
    Node("ClassDef", 1, "body", "Square", 5, 0, <<>>),
    [Node("FunctionDef", 3, "body", "area", 3, 0, <<>>) EXCEPT
       !.doc = <<"Area of a circle.">>],
    [Node("FunctionDef", 4, "body", "area", 6, 0, <<>>) EXCEPT
       !.doc = <<"Area of a square.">>],
    Node("FunctionDef", 4, "body", "side", 8, 0, <<>>)>>, "")

\* def f(a1=1, /):
\*     pass
SrcPosOnly ==
  Content(TRUE, <<ModuleNode,
    [Node("FunctionDef", 1, "body", "f", 1, 0, <<>>) EXCEPT
       !.args = Arguments(<<Arg("a1", <<>>)>>, <<>>, <<>>, <<>>, <<>>, <<>>,
                          <<ConstantExpr("int", "1")>>)]>>, "")

\* def f(:
SrcBad == Content(FALSE, <<>>, "invalid syntax (<unknown>, line 1)")

\* the texts of the sequential runs
SampleContents == {SrcGeneric, SrcImports, SrcBad}

\* texts a single parse is checked on, beside the generated ones
TreeContents ==
  {SrcWidget, SrcNested, SrcGeneric, SrcImports, SrcScenarioC, SrcAsync, SrcBases,
   SrcLocalImports, SrcDecorated}

\* the texts of two interleaved parses
ConcContents == {SrcWidget, SrcGeneric, SrcImports}

(***************************************************************************)
(* Files.  Path.exists and Path.read_text(encoding='utf-8').               *)
(***************************************************************************)
File(path, exists, utf8, eol, text) ==
  [path |-> path, exists |-> exists, utf8 |-> utf8, eol |-> eol, text |-> text]

Files ==
  {File("widget.py", TRUE, TRUE, "LF", SrcWidget),
   File("widget_crlf.py", TRUE, TRUE, "CRLF", SrcWidget),
   File("bad.py", TRUE, TRUE, "LF", SrcBad),
   File("latin1.py", TRUE, FALSE, "LF", SrcWidget),
   File("missing.py", FALSE, TRUE, "LF", SrcBad)}

\* the bytes of a file: its text in some encoding, every line ended by the
\* terminator of the file
FileBytes(file) == [utf8 |-> file.utf8, eol |-> file.eol, text |-> file.text]

\* bytes.decode('utf-8') in text mode: universal newlines turn every
\* terminator into \n
Decode(bytes) == bytes.text

\* read_text(encoding='utf-8')
ReadText(file) == Decode(FileBytes(file))

\* content.encode(): the terminators of a str read in text mode are \n
Encode(content) == [utf8 |-> TRUE, eol |-> "LF", text |-> content]

\* len(content.splitlines()): the lines up to the last one that holds a node
LineCount(content) ==
  IF content.ok
  THEN MaxLine(content.tree, 1..Len(content.tree))
  ELSE 1

\* len(bytes), counted in units: one for every byte of a line terminator
\* and one for the other bytes of a line, which are the same bytes in every
\* encoding of one text
ByteLen(bytes) ==
  LineCount(bytes.text) * (IF bytes.eol = "CRLF" THEN 3 ELSE 2)

\* sha256 taken as injective
Sha256(bytes) == <<"sha256", bytes>>

(***************************************************************************)
(* State.                                                                  *)
(***************************************************************************)
VARIABLES
  current_class,  \* self.current_class of every parser instance
  imports,        \* self.imports of every parser instance: a list object
  heap,           \* the list objects, by reference
  th,             \* the locals of every thread's call
  returned,       \* what the calls gave their callers, in order
  ncalls,         \* calls started
  hashseed,       \* the str hash seed of the process
  input,          \* the tree of a source text being written
  db,             \* the committed rows of the database
  agent,          \* the locals of the CodeAnalyzerAgent call under way
  extractor       \* the locals of the DocstringExtractor call under way

vars ==
  <<current_class, imports, heap, th, returned, ncalls, hashseed, input, db, agent,
    extractor>>

Threads == {"main", "other"}

\* no text: the call ended before one was read
NoContent == Content(FALSE, <<>>, "")

Main == "main"

Idle ==
  [pc |-> "idle", self |-> 0, file_path |-> "", content |-> NoContent, tree |-> <<>>,
   todo |-> <<>>, elements |-> <<>>, node |-> 0, alias |-> 0,
   old_class |-> None, element_type |-> "", full_name |-> "", is_async |-> FALSE]

\* a FileAnalysis given to the caller
Returns(t, analysis) ==
  [thread |-> t, self |-> th[t].self, file_path |-> th[t].file_path,
   content |-> th[t].content, status |-> "return",
   exc |-> "", message |-> "", analysis |-> <<analysis>>]

\* an exception that reaches the caller
Raises(t, p, file_path, content, exc, message) ==
  [thread |-> t, self |-> p, file_path |-> file_path, content |-> content,
   status |-> "raise", exc |-> exc, message |-> message, analysis |-> <<>>]

\* no row in projects, code_files and code_elements
EmptyDb == [projects |-> <<>>, code_files |-> <<>>, code_elements |-> <<>>]

\* the results dictionary of lines 109-117
NewResults ==
  [status |-> "success", files_analyzed |-> 0, files_failed |-> 0,
   total_elements |-> 0, file_results |-> <<>>, errors |-> <<>>]

\* no call of the agent under way; done counts the files the loop is through
\* with, file_id and element_ids are the locals of the analyze_file call
\* under way, result holds what it returns
AgentIdle ==
  [pc |-> "idle", python_files |-> <<>>, done |-> 0, results |-> NewResults,
   file_id |-> 0, element_ids |-> <<>>, result |-> <<>>]

\* a dict with str keys is a function on its keys
EmptyDict == [key \in {} |-> ""]

\* no call of the extractor under way; files is what path.glob yields, done
\* counts the files the loop is through with, file_functions is what
\* extract_from_file returned for the file at hand
ExtractorIdle ==
  [pc |-> "idle", files |-> <<>>, done |-> 0, all_functions |-> EmptyDict,
   file_functions |-> EmptyDict]

\* PythonASTParser.__init__ of the first instance
Init ==
  /\ current_class = <<None>>
  /\ imports = <<1>>
  /\ heap = <<<<>>>>
  /\ th = [t \in Threads |-> Idle]
  /\ returned = <<>>
  /\ ncalls = 0
  /\ hashseed \in {0, 1}
  /\ input = <<ModuleNode>>
  /\ db = EmptyDb
  /\ agent = AgentIdle
  /\ extractor = ExtractorIdle

\* PythonASTParser.__init__ of a further instance
NewParser ==
  /\ Len(current_class) < 1 + MaxParsers
  /\ current_class' = Append(current_class, None)
  /\ heap' = Append(heap, <<>>)
  /\ imports' = Append(imports, Len(heap) + 1)
  /\ UNCHANGED <<th, returned, ncalls, hashseed, input, db, agent, extractor>>

(***************************************************************************)
(* parse_file and the entry of parse_content.                              *)
(***************************************************************************)
Enter(t, p, content, file_path) ==
  /\ th[t].pc = "idle"
  /\ ncalls < MaxCalls
  /\ ncalls' = ncalls + 1
  /\ th' = [th EXCEPT ![t] = [Idle EXCEPT !.pc = "ast_parse", !.self = p,
                                          !.content = content, !.file_path = file_path]]
  /\ UNCHANGED <<current_class, imports, heap, returned, hashseed, input, db, agent, extractor>>

\* parse_content called with a text
ParseContent(t, p, content) == Enter(t, p, content, "unknown")

\* parse_file raising the generic ValueError for a missing path
ParseFileNotFound_AsValueError(t, p, file) ==
  /\ th[t].pc = "idle"
  /\ ncalls < MaxCalls
  /\ ~file.exists
  /\ ncalls' = ncalls + 1
  /\ returned' = Append(returned,
       Raises(t, p, file.path, NoContent, "ValueError",
              "File not found: " \o file.path))
  /\ UNCHANGED <<current_class, imports, heap, th, hashseed, input, db, agent, extractor>>

\* parse_file, lines 59-61: the path does not exist
ParseFileNotFound(t, p, file) ==
  /\ th[t].pc = "idle"
  /\ ncalls < MaxCalls
  /\ ~file.exists
  /\ ncalls' = ncalls + 1
  /\ returned' = Append(returned,
       Raises(t, p, file.path, NoContent, "FileNotFoundError",
              "File not found: " \o file.path))
  /\ UNCHANGED <<current_class, imports, heap, th, hashseed, input, db, agent, extractor>>

\* parse_file, line 63: the bytes are not UTF-8
ParseFileUndecodable(t, p, file) ==
  /\ th[t].pc = "idle"
  /\ ncalls < MaxCalls
  /\ file.exists /\ ~file.utf8
  /\ ncalls' = ncalls + 1
  /\ returned' = Append(returned,
       Raises(t, p, file.path, NoContent, "UnicodeDecodeError",
              "'utf-8' codec can't decode byte"))
  /\ UNCHANGED <<current_class, imports, heap, th, hashseed, input, db, agent, extractor>>

\* parse_file, lines 63-64: the text is read and handed to parse_content
ParseFileRead(t, p, file) ==
  /\ file.exists /\ file.utf8
  /\ Enter(t, p, ReadText(file), file.path)

\* lines 68-69: ast.parse builds the tree
AstParseOk(t) ==
  /\ th[t].pc = "ast_parse"
  /\ th[t].content.ok
  /\ th' = [th EXCEPT ![t].pc = "reset_class", ![t].tree = th[t].content.tree]
  /\ UNCHANGED <<current_class, imports, heap, returned, ncalls, hashseed, input, db, agent, extractor>>

\* parse_content with the reset of lines 74-75 moved above the try
AstParseSyntaxError_AfterReset(t) ==
  /\ th[t].pc = "ast_parse"
  /\ ~th[t].content.ok
  /\ current_class' = [current_class EXCEPT ![th[t].self] = None]
  /\ heap' = Append(heap, <<>>)
  /\ imports' = [imports EXCEPT ![th[t].self] = Len(heap) + 1]
  /\ returned' = Append(returned,
       Raises(t, th[t].self, th[t].file_path, th[t].content, "ValueError",
              "Syntax error in " \o th[t].file_path \o ": " \o th[t].content.msg))
  /\ th' = [th EXCEPT ![t] = Idle]
  /\ UNCHANGED <<ncalls, hashseed, input, db, agent, extractor>>

\* lines 70-71: the SyntaxError of ast.parse leaves as a ValueError
AstParseSyntaxError(t) ==
  /\ th[t].pc = "ast_parse"
  /\ ~th[t].content.ok
  /\ returned' = Append(returned,
       Raises(t, th[t].self, th[t].file_path, th[t].content, "ValueError",
              "Syntax error in " \o th[t].file_path \o ": " \o th[t].content.msg))
  /\ th' = [th EXCEPT ![t] = Idle]
  /\ UNCHANGED <<current_class, imports, heap, ncalls, hashseed, input, db, agent, extractor>>

\* line 74
ResetClass(t) ==
  /\ th[t].pc = "reset_class"
  /\ current_class' = [current_class EXCEPT ![th[t].self] = None]
  /\ th' = [th EXCEPT ![t].pc = "reset_imports"]
  /\ UNCHANGED <<imports, heap, returned, ncalls, hashseed, input, db, agent, extractor>>

\* line 75 written self.imports.clear(): the list object is kept
ResetImports_Clear(t) ==
  /\ th[t].pc = "reset_imports"
  /\ heap' = [heap EXCEPT ![imports[th[t].self]] = <<>>]
  /\ th' = [th EXCEPT ![t].pc = "walk", ![t].todo = <<1>>, ![t].elements = <<>>]
  /\ UNCHANGED <<current_class, imports, returned, ncalls, hashseed, input, db, agent, extractor>>

\* lines 75-79: a new list object for self.imports, elements = [], the
\* deque of ast.walk holds the Module
ResetImports(t) ==
  /\ th[t].pc = "reset_imports"
  /\ heap' = Append(heap, <<>>)
  /\ imports' = [imports EXCEPT ![th[t].self] = Len(heap) + 1]
  /\ th' = [th EXCEPT ![t].pc = "walk", ![t].todo = <<1>>, ![t].elements = <<>>]
  /\ UNCHANGED <<current_class, returned, ncalls, hashseed, input, db, agent, extractor>>

(***************************************************************************)
(* The loop over ast.walk(tree), lines 79-87.                              *)
(***************************************************************************)
\* the isinstance chain of lines 80-87 without the branch of line 82
Dispatch_SyncOnly(kind) ==
  IF kind = "FunctionDef" THEN "fn_type"
  ELSE IF kind = "ClassDef" THEN "cls_save"
  ELSE IF kind \in {"Import", "ImportFrom"} THEN "imp_append"
  ELSE "walk"

\* where the loop body goes for a node of this kind
Dispatch(kind) ==
  IF kind \in {"FunctionDef", "AsyncFunctionDef"} THEN "fn_type"
  ELSE IF kind = "ClassDef" THEN "cls_save"
  ELSE IF kind \in {"Import", "ImportFrom"} THEN "imp_append"
  ELSE "walk"

\* one iteration: ast.walk pops a node and queues its children, then the
\* isinstance chain picks the handler
WalkNext(t) ==
  /\ th[t].pc = "walk"
  /\ th[t].todo # <<>>
  /\ LET i == Head(th[t].todo)
     IN th' = [th EXCEPT ![t].pc = Dispatch(th[t].tree[i].kind),
                         ![t].node = i,
                         ![t].alias = 1,
                         ![t].is_async = (th[t].tree[i].kind = "AsyncFunctionDef"),
                         ![t].todo = Tail(th[t].todo) \o ChildSeq(th[t].tree, i)]
  /\ UNCHANGED <<current_class, imports, heap, returned, ncalls, hashseed, input, db, agent, extractor>>

\* _extract_function, line 108
FnType(t) ==
  /\ th[t].pc = "fn_type"
  /\ th' = [th EXCEPT ![t].pc = "fn_name",
                      ![t].element_type = ElementType(current_class[th[t].self])]
  /\ UNCHANGED <<current_class, imports, heap, returned, ncalls, hashseed, input, db, agent, extractor>>

\* _extract_function, line 111
FnName(t) ==
  /\ th[t].pc = "fn_name"
  /\ th' = [th EXCEPT ![t].pc = "fn_build",
                      ![t].full_name = FullName(current_class[th[t].self],
                                                th[t].tree[th[t].node].name)]
  /\ UNCHANGED <<current_class, imports, heap, returned, ncalls, hashseed, input, db, agent, extractor>>

\* _extract_function, lines 114-159, and the append of line 81 or 83; the
\* tree of this call lies at some address, read where a node is printed
FnBuild(t) ==
  /\ th[t].pc = "fn_build"
  /\ IF BuildSignature(th[t].tree[th[t].node], th[t].is_async).raises
     THEN \* line 229 raises, and nothing on the way to the caller catches it
          /\ returned' = Append(returned,
               Raises(t, th[t].self, th[t].file_path, th[t].content, "IndexError",
                      "list index out of range"))
          /\ th' = [th EXCEPT ![t] = Idle]
     ELSE /\ \E a \in Addrs :
               th' = [th EXCEPT ![t].pc = "walk",
                                ![t].elements = Append(th[t].elements,
                                   ExtractFunction(th[t].tree, th[t].node, th[t].is_async,
                                                   th[t].element_type, th[t].full_name,
                                                   current_class[th[t].self], hashseed, a))]
          /\ UNCHANGED returned
  /\ UNCHANGED <<current_class, imports, heap, ncalls, hashseed, input, db, agent, extractor>>

\* _extract_class, line 164
ClsSave(t) ==
  /\ th[t].pc = "cls_save"
  /\ th' = [th EXCEPT ![t].pc = "cls_set", ![t].old_class = current_class[th[t].self]]
  /\ UNCHANGED <<current_class, imports, heap, returned, ncalls, hashseed, input, db, agent, extractor>>

\* _extract_class, line 165
ClsSet(t) ==
  /\ th[t].pc = "cls_set"
  /\ current_class' = [current_class EXCEPT ![th[t].self] = th[t].tree[th[t].node].name]
  /\ th' = [th EXCEPT ![t].pc = "cls_restore"]
  /\ UNCHANGED <<imports, heap, returned, ncalls, hashseed, input, db, agent, extractor>>

\* _extract_class without line 206: the class name stays in the slot
ClsRestore_KeepsClass(t) ==
  /\ th[t].pc = "cls_restore"
  /\ \E a \in Addrs :
       th' = [th EXCEPT ![t].pc = "walk",
                        ![t].elements = Append(th[t].elements,
                           ExtractClass(th[t].tree, th[t].node, a))]
  /\ UNCHANGED <<current_class, imports, heap, returned, ncalls, hashseed, input, db, agent, extractor>>

\* _extract_class, lines 167-207, and the append of line 85
ClsRestore(t) ==
  /\ th[t].pc = "cls_restore"
  /\ current_class' = [current_class EXCEPT ![th[t].self] = th[t].old_class]
  /\ \E a \in Addrs :
       th' = [th EXCEPT ![t].pc = "walk",
                        ![t].elements = Append(th[t].elements,
                           ExtractClass(th[t].tree, th[t].node, a))]
  /\ UNCHANGED <<imports, heap, returned, ncalls, hashseed, input, db, agent, extractor>>

\* _extract_imports: one append to the list self.imports refers to
ImpAppend(t) ==
  /\ th[t].pc = "imp_append"
  /\ LET node == th[t].tree[th[t].node]
         ref == imports[th[t].self]
     IN /\ heap' = [heap EXCEPT ![ref] = Append(heap[ref], ImportEntry(node, th[t].alias))]
        /\ th' = [th EXCEPT ![t].alias = th[t].alias + 1,
                            ![t].pc = IF th[t].alias < Len(node.names)
                                      THEN "imp_append" ELSE "walk"]
  /\ UNCHANGED <<current_class, imports, returned, ncalls, hashseed, input, db, agent, extractor>>

\* lines 90-103: the FileAnalysis holds the list self.imports refers to
FileAnalysis(t) ==
  [file_path |-> th[t].file_path,
   content |-> th[t].content,
   content_hash |-> Sha256(Encode(th[t].content)),
   line_count |-> LineCount(th[t].content),
   file_size |-> ByteLen(Encode(th[t].content)),
   elements |-> th[t].elements,
   imports |-> imports[th[t].self],
   global_variables |-> <<>>]

Return(t) ==
  /\ th[t].pc = "walk"
  /\ th[t].todo = <<>>
  /\ returned' = Append(returned, Returns(t, FileAnalysis(t)))
  /\ th' = [th EXCEPT ![t] = Idle]
  /\ UNCHANGED <<current_class, imports, heap, ncalls, hashseed, input, db, agent, extractor>>

\* the steps of a call under way
Step(t) ==
  \/ AstParseOk(t)
  \/ ResetClass(t)
  \/ ResetImports(t)
  \/ WalkNext(t)
  \/ FnType(t)
  \/ FnName(t)
  \/ FnBuild(t)
  \/ ClsSave(t)
  \/ ClsSet(t)
  \/ ClsRestore(t)
  \/ ImpAppend(t)
  \/ Return(t)

(***************************************************************************)
(* Specifications.                                                         *)
(***************************************************************************)
Parsers == 1..Len(current_class)

\* a call may start
CanCall(t) == th[t].pc = "idle" /\ ncalls < MaxCalls

\* one thread, any sequence of parse_file and parse_content calls
Next ==
  \/ NewParser
  \/ CanCall(Main) /\ \E p \in Parsers, c \in SampleContents : ParseContent(Main, p, c)
  \/ CanCall(Main) /\ \E p \in Parsers, f \in Files : ParseFileNotFound(Main, p, f)
  \/ CanCall(Main) /\ \E p \in Parsers, f \in Files : ParseFileUndecodable(Main, p, f)
  \/ CanCall(Main) /\ \E p \in Parsers, f \in Files : ParseFileRead(Main, p, f)
  \/ AstParseSyntaxError(Main)
  \/ Step(Main)

Spec == Init /\ [][Next]_vars

\* a source text grows by one node the grammar allows
Grow ==
  /\ ncalls = 0
  /\ Len(input) < 1 + MaxNodes
  /\ \E x \in Extensions(input) : input' = Append(input, x)
  /\ UNCHANGED <<current_class, imports, heap, th, returned, ncalls, hashseed, db, agent, extractor>>

\* one parse of the text written
ParseGrown ==
  /\ ncalls = 0
  /\ Len(input) > 1
  /\ ParseContent(Main, 1, Content(TRUE, input, ""))

\* one parse of a sample text
ParseSample ==
  /\ ncalls = 0
  /\ input = <<ModuleNode>>
  /\ \E c \in TreeContents : ParseContent(Main, 1, c)

NextTree ==
  \/ Grow
  \/ ParseGrown
  \/ ParseSample
  \/ Step(Main)

SpecTree == Init /\ [][NextTree]_vars

(***************************************************************************)
(* The header of one definition is written, then the text is parsed.       *)
(***************************************************************************)
\* from m import n
\* class K:
\*     def f(): pass
DefSkeleton ==
  <<ModuleNode,
    Node("ImportFrom", 1, "body", "m", 1, 0, <<"n">>),
    Node("ClassDef", 1, "body", "K", 2, 0, <<>>),
    Node("FunctionDef", 3, "body", "f", 3, 0, <<>>)>>

\* the node whose header is written: the function definition of the skeleton
DefNode ==
  CHOOSE i \in 1..Len(DefSkeleton) : DefSkeleton[i].kind = "FunctionDef"

RECURSIVE Words(_)
\* the identifiers of at most n characters over "_" and "x"
Words(n) ==
  IF n = 0 THEN {""}
  ELSE Words(n - 1) \cup {w \o c : w \in Words(n - 1), c \in {"_", "x"}}

Identifiers == Words(MaxNameLen) \ {""}

\* the annotations a header is written with
GenAnnotations == {<<>>, <<NameExpr("int")>>, <<ConstantExpr("str", "T")>>, <<BinOpExpr>>}

\* the i-th default value of a written header
GenDefault(i) ==
  <<ConstantExpr("int", ToString(i)), ConstantExpr("str", "s" \o ToString(i)),
    NameExpr("d" \o ToString(i)), BinOpExpr>>[((i - 1) % 4) + 1]

\* def name(a1, .., /, b1, .., *args, k1, **kwargs) -> int with the last
\* nd positional parameters given a default
GenArguments(np, na, nd, ann, va, ko, kw) ==
  Arguments([n \in 1..np |-> Arg("a" \o ToString(n), ann)],
            [n \in 1..na |-> Arg("b" \o ToString(n), ann)],
            IF va THEN <<Arg("args", ann)>> ELSE <<>>,
            IF ko THEN <<Arg("k1", ann)>> ELSE <<>>,
            IF ko THEN <<ConstantExpr("NoneType", "None")>> ELSE <<>>,
            IF kw THEN <<Arg("kwargs", ann)>> ELSE <<>>,
            [n \in 1..nd |-> GenDefault(n)])

\* the header as first written
Blank(tree) ==
  /\ tree[DefNode].args = NoArgs
  /\ tree[DefNode].returns = <<>>
  /\ tree[DefNode].kind = "FunctionDef"

InitDef ==
  /\ current_class = <<None>>
  /\ imports = <<1>>
  /\ heap = <<<<>>>>
  /\ th = [t \in Threads |-> Idle]
  /\ returned = <<>>
  /\ ncalls = 0
  /\ hashseed \in {0, 1}
  /\ input = DefSkeleton
  /\ db = EmptyDb
  /\ agent = AgentIdle
  /\ extractor = ExtractorIdle

\* the definition is given another name
WriteName ==
  /\ ncalls = 0
  /\ Blank(input)
  /\ input[DefNode].name = "f"
  /\ \E name \in Identifiers : input' = [input EXCEPT ![DefNode].name = name]
  /\ UNCHANGED <<current_class, imports, heap, th, returned, ncalls, hashseed, db, agent, extractor>>

\* the definition is given parameters, a return annotation, an async
WriteHeader ==
  /\ ncalls = 0
  /\ Blank(input)
  /\ input[DefNode].name = "f"
  /\ \E np \in 0..MaxPosOnly, na \in 0..MaxArgs, ann \in GenAnnotations,
        va, ko, kw, is_async \in BOOLEAN, returns \in {<<>>, <<NameExpr("int")>>} :
       \E nd \in 0..(np + na) :
         input' = [input EXCEPT
           ![DefNode].kind = IF is_async THEN "AsyncFunctionDef" ELSE "FunctionDef",
           ![DefNode].args = GenArguments(np, na, nd, ann, va, ko, kw),
           ![DefNode].returns = returns]
  /\ UNCHANGED <<current_class, imports, heap, th, returned, ncalls, hashseed, db, agent, extractor>>

NextDef ==
  \/ WriteName
  \/ WriteHeader
  \/ ParseGrown
  \/ Step(Main)

SpecDef == InitDef /\ [][NextDef]_vars

\* two threads that call parse_content on the one instance
NextConc ==
  \E t \in Threads :
    \/ CanCall(t) /\ \E c \in ConcContents : ParseContent(t, 1, c)
    \/ Step(t)

SpecConc == Init /\ [][NextConc]_vars

(***************************************************************************)
(* CodeAnalyzerAgent (src/src/agents/code_analyzer.py) and the two tables  *)
(* it writes through database/db_utils.py.  The agent has one parser,      *)
(* instance 1, and runs on the main thread.                                *)
(***************************************************************************)
\* the project the agent is called for
ProjectId == "p1"

\* the files directory.rglob may yield; gone.py is removed before it is read
DirFiles ==
  {File("widget.py", TRUE, TRUE, "LF", SrcWidget),
   File("tools.py", TRUE, TRUE, "LF", SrcImports),
   File("bad.py", TRUE, TRUE, "LF", SrcBad),
   File("posonly.py", TRUE, TRUE, "LF", SrcPosOnly),
   File("latin1.py", TRUE, FALSE, "LF", SrcWidget),
   File("gone.py", FALSE, TRUE, "LF", SrcBad)}

\* what lines 120-122 may collect: a pattern list can yield a file twice
Listings == UNION {[1..n -> DirFiles] : n \in 0..MaxCalls}

\* the row of (project_id, file_path) in code_files, 0 when there is none
FileRow(project_id, file_path) ==
  LET rows == {n \in 1..Len(db.code_files) :
                 /\ db.code_files[n].project_id = project_id
                 /\ db.code_files[n].file_path = file_path}
  IN IF rows = {} THEN 0 ELSE CHOOSE n \in rows : TRUE

\* add_file without the ON CONFLICT clause: always a new row
AddFile_AlwaysInsert(project_id, file_path, content) ==
  [db EXCEPT !.code_files = Append(@,
     [project_id |-> project_id, file_path |-> file_path,
      content_hash |-> Sha256(Encode(content))])]

\* CodeFileManager.add_file: insert, or update on conflict, and commit
AddFile(project_id, file_path, content) ==
  LET row == [project_id |-> project_id, file_path |-> file_path,
              content_hash |-> Sha256(Encode(content))]
      n == FileRow(project_id, file_path)
  IN IF n = 0
     THEN [db EXCEPT !.code_files = Append(@, row)]
     ELSE [db EXCEPT !.code_files[n] = row]

\* CodeElementManager.add_element: insert and commit
AddElement(file_id, element) ==
  [db EXCEPT !.code_elements = Append(@,
     [file_id |-> file_id, element_type |-> element.element_type,
      name |-> element.name, full_name |-> element.full_name,
      signature |-> element.signature])]

\* lines 78-85 with the name of the caught class, Exception, as error_type
ErrorResult_Untyped(file_path, message, error_type) ==
  [status |-> "error", file_path |-> file_path, error |-> message,
   error_type |-> "Exception"]

\* the dictionary of lines 78-85
ErrorResult(file_path, message, error_type) ==
  [status |-> "error", file_path |-> file_path, error |-> message,
   error_type |-> error_type]

\* analyze_directory, lines 103-107: the directory does not exist
AnalyzeDirectoryMissing ==
  /\ agent.pc \in {"idle", "project"}
  /\ agent' = [agent EXCEPT !.pc = "done",
                            !.results = [status |-> "error",
                                         error |-> "Directory not found: src"]]
  /\ UNCHANGED <<current_class, imports, heap, th, returned, ncalls, hashseed, input, db, extractor>>

\* analyze_directory, lines 100-122: results is set up, the files are listed
AnalyzeDirectory ==
  /\ agent.pc \in {"idle", "project"}
  /\ \E files \in Listings :
       agent' = [agent EXCEPT !.pc = "loop", !.python_files = files,
                              !.results = NewResults]
  /\ UNCHANGED <<current_class, imports, heap, th, returned, ncalls, hashseed, input, db, extractor>>

\* the loop of line 125 has a next file, and analyze_file is at line 59
CanAnalyze ==
  /\ agent.pc = "loop"
  /\ agent.done < Len(agent.python_files)
  /\ Len(returned) = agent.done
  /\ th[Main].pc = "idle"

NextFile == agent.python_files[agent.done + 1]

\* parse_file has ended for the file of this iteration
Parsed ==
  /\ agent.pc = "loop"
  /\ Len(returned) = agent.done + 1
  /\ th[Main].pc = "idle"

\* analyze_file, lines 78-85: parse_file raised
AfParseFailed ==
  /\ Parsed
  /\ returned[agent.done + 1].status = "raise"
  /\ LET r == returned[agent.done + 1]
     IN agent' = [agent EXCEPT !.pc = "record",
                               !.result = <<ErrorResult(r.file_path, r.message, r.exc)>>]
  /\ UNCHANGED <<current_class, imports, heap, th, returned, ncalls, hashseed, input, db, extractor>>

\* analyze_file, line 62: _store_file, which the database may refuse
AfStoreFile ==
  /\ Parsed
  /\ returned[agent.done + 1].status = "return"
  /\ LET analysis == returned[agent.done + 1].analysis[1]
     IN \E stored \in BOOLEAN :
          IF stored
          THEN /\ db' = AddFile(ProjectId, analysis.file_path, analysis.content)
               /\ agent' = [agent EXCEPT
                    !.pc = "store_elements",
                    !.file_id = IF FileRow(ProjectId, analysis.file_path) = 0
                                THEN Len(db.code_files) + 1
                                ELSE FileRow(ProjectId, analysis.file_path),
                    !.element_ids = <<>>]
          ELSE /\ agent' = [agent EXCEPT !.pc = "record",
                    !.result = <<ErrorResult(analysis.file_path, "connection refused",
                                             "OperationalError")>>]
               /\ UNCHANGED db
  /\ UNCHANGED <<current_class, imports, heap, th, returned, ncalls, hashseed, input, extractor>>

\* _store_elements with one transaction for all the elements of the file: a
\* refusal rolls back those stored before
AfStoreElement_OneTransaction ==
  /\ agent.pc = "store_elements"
  /\ LET analysis == returned[agent.done + 1].analysis[1]
         k == Len(agent.element_ids) + 1
     IN /\ k <= Len(analysis.elements)
        /\ \E stored \in BOOLEAN :
             IF stored
             THEN /\ db' = AddElement(agent.file_id, analysis.elements[k])
                  /\ agent' = [agent EXCEPT
                       !.element_ids = Append(@, Len(db.code_elements) + 1)]
             ELSE /\ agent' = [agent EXCEPT !.pc = "record",
                       !.result = <<ErrorResult(analysis.file_path, "connection refused",
                                                "OperationalError")>>]
                  /\ db' = [db EXCEPT !.code_elements =
                              SubSeq(@, 1, Len(@) - Len(agent.element_ids))]
  /\ UNCHANGED <<current_class, imports, heap, th, returned, ncalls, hashseed, input, extractor>>

\* _store_elements, lines 265-281: one add_element, which the database may
\* refuse
AfStoreElement ==
  /\ agent.pc = "store_elements"
  /\ LET analysis == returned[agent.done + 1].analysis[1]
         k == Len(agent.element_ids) + 1
     IN /\ k <= Len(analysis.elements)
        /\ \E stored \in BOOLEAN :
             IF stored
             THEN /\ db' = AddElement(agent.file_id, analysis.elements[k])
                  /\ agent' = [agent EXCEPT
                       !.element_ids = Append(@, Len(db.code_elements) + 1)]
             ELSE /\ agent' = [agent EXCEPT !.pc = "record",
                       !.result = <<ErrorResult(analysis.file_path, "connection refused",
                                                "OperationalError")>>]
                  /\ UNCHANGED db
  /\ UNCHANGED <<current_class, imports, heap, th, returned, ncalls, hashseed, input, extractor>>

\* analyze_file, lines 67-77: every element is stored
AfReturn ==
  /\ agent.pc = "store_elements"
  /\ LET analysis == returned[agent.done + 1].analysis[1]
     IN /\ Len(agent.element_ids) = Len(analysis.elements)
        /\ agent' = [agent EXCEPT !.pc = "record",
             !.result = <<[status |-> "success", file_path |-> analysis.file_path,
                           file_id |-> agent.file_id,
                           elements_found |-> Len(analysis.elements),
                           element_ids |-> agent.element_ids,
                           file_size |-> analysis.file_size,
                           line_count |-> analysis.line_count,
                           imports |-> analysis.imports,
                           content_hash |-> analysis.content_hash]>>]
  /\ UNCHANGED <<current_class, imports, heap, th, returned, ncalls, hashseed, input, db, extractor>>

\* lines 129-136 with the append of line 136 in the success branch only
AdRecord_ResultsOfSuccesses ==
  /\ agent.pc = "record"
  /\ LET result == agent.result[1]
         results == agent.results
     IN agent' = [agent EXCEPT
          !.pc = "loop",
          !.done = @ + 1,
          !.result = <<>>,
          !.file_id = 0,
          !.element_ids = <<>>,
          !.results =
            IF result.status = "success"
            THEN [results EXCEPT !.files_analyzed = @ + 1,
                                 !.total_elements = @ + result.elements_found,
                                 !.file_results = Append(@, result)]
            ELSE [results EXCEPT !.files_failed = @ + 1,
                                 !.errors = Append(@, result)]]
  /\ UNCHANGED <<current_class, imports, heap, th, returned, ncalls, hashseed, input, db, extractor>>

\* analyze_directory, lines 129-136: the result of the file is counted
AdRecord ==
  /\ agent.pc = "record"
  /\ LET result == agent.result[1]
         results == agent.results
     IN agent' = [agent EXCEPT
          !.pc = "loop",
          !.done = @ + 1,
          !.result = <<>>,
          !.file_id = 0,
          !.element_ids = <<>>,
          !.results =
            IF result.status = "success"
            THEN [results EXCEPT !.files_analyzed = @ + 1,
                                 !.total_elements = @ + result.elements_found,
                                 !.file_results = Append(@, result)]
            ELSE [results EXCEPT !.files_failed = @ + 1,
                                 !.errors = Append(@, result),
                                 !.file_results = Append(@, result)]]
  /\ UNCHANGED <<current_class, imports, heap, th, returned, ncalls, hashseed, input, db, extractor>>

\* analyze_directory, line 147: the loop is over
AdReturn ==
  /\ agent.pc = "loop"
  /\ agent.done = Len(agent.python_files)
  /\ agent' = [agent EXCEPT !.pc = "done"]
  /\ UNCHANGED <<current_class, imports, heap, th, returned, ncalls, hashseed, input, db, extractor>>

\* one call of analyze_directory
NextDir ==
  \/ AnalyzeDirectoryMissing
  \/ AnalyzeDirectory
  \/ CanAnalyze /\ ParseFileNotFound(Main, 1, NextFile)
  \/ CanAnalyze /\ ParseFileUndecodable(Main, 1, NextFile)
  \/ CanAnalyze /\ ParseFileRead(Main, 1, NextFile)
  \/ AstParseSyntaxError(Main)
  \/ Step(Main)
  \/ AfParseFailed
  \/ AfStoreFile
  \/ AfStoreElement
  \/ AfReturn
  \/ AdRecord
  \/ AdReturn

\* analyze_directory has returned: no step of NextDir is possible
Returned_Dir == agent.pc = "done"

\* The interpreter runs the call until it returns: weak fairness of NextDir,
\* WF_vars(NextDir), written out with the states in which NextDir is enabled
\* (all but those after the return).
SpecDir ==
  Init /\ [][NextDir]_vars /\ ([]<>Returned_Dir \/ []<><<NextDir>>_vars)

(***************************************************************************)
(* DocstringExtractor (src/extract_docstrings.py).  The extractor has one  *)
(* parser, instance 1, and runs on the main thread.                        *)
(***************************************************************************)
\* the files a directory may hold: two of them have the same name
DocFiles ==
  {File("pkg/a/util.py", TRUE, TRUE, "LF", SrcRunA),
   File("pkg/b/util.py", TRUE, TRUE, "LF", SrcRunB),
   File("pkg/shapes.py", TRUE, TRUE, "LF", SrcShapes),
   File("pkg/bad.py", TRUE, TRUE, "LF", SrcBad)}

\* what path.glob may yield: the files of the directory, each once, in the
\* order of the file system
Globs ==
  {files \in UNION {[1..n -> DocFiles] : n \in 0..MaxCalls} :
     \A n \in 1..Len(files), m \in 1..Len(files) : files[n] = files[m] => n = m}

RECURSIVE Basename(_)
\* Path(file_path).name: what follows the last separator
Basename(path) ==
  IF \E n \in 1..Len(path) : SubSeq(path, n, n) = "/"
  THEN Basename(SubSeq(path, 1 + (CHOOSE n \in 1..Len(path) : SubSeq(path, n, n) = "/"),
                       Len(path)))
  ELSE path

\* docstring.strip(): "" when the docstring holds blanks only
Strip(docstring) ==
  IF \A n \in 1..Len(docstring) : SubSeq(docstring, n, n) = " " THEN "" ELSE docstring

\* _create_function_key
CreateFunctionKey(element, file_path) ==
  LET rel_path == Basename(file_path)
  IN IF Truthy(element.parent_class)
     THEN rel_path \o ":" \o element.parent_class \o "." \o element.name
     ELSE rel_path \o ":" \o element.name

\* the value of lines 54-73
FunctionInfo(element, file_path) ==
  [signature |-> element.signature,
   docstring |-> Strip(element.docstring),
   metadata |-> [file_path |-> file_path, function_name |-> element.name,
                 full_name |-> element.full_name, element_type |-> element.element_type,
                 start_line |-> element.start_line, parent_class |-> element.parent_class]]

\* functions[key] = value
DictSet(functions, key, value) ==
  [k \in DOMAIN functions \cup {key} |-> IF k = key THEN value ELSE functions[k]]

\* functions.update(other)
DictUpdate(functions, other) ==
  [k \in DOMAIN functions \cup DOMAIN other |->
     IF k \in DOMAIN other THEN other[k] ELSE functions[k]]

RECURSIVE ProcessElements(_, _, _, _)
\* _process_elements from element n on
ProcessElements(elements, file_path, n, functions) ==
  IF n > Len(elements) THEN functions
  ELSE LET element == elements[n]
       IN IF element.element_type \in {"function", "method"} /\ Strip(element.docstring) # ""
          THEN ProcessElements(elements, file_path, n + 1,
                 DictSet(functions, CreateFunctionKey(element, file_path),
                         FunctionInfo(element, file_path)))
          ELSE ProcessElements(elements, file_path, n + 1, functions)

\* extract_from_directory, lines 34-37: the dictionary is set up, the files
\* are listed
ExtractFromDirectory ==
  /\ extractor.pc = "idle"
  /\ \E files \in Globs :
       extractor' = [extractor EXCEPT !.pc = "loop", !.files = files,
                                      !.all_functions = EmptyDict]
  /\ UNCHANGED <<current_class, imports, heap, th, returned, ncalls, hashseed, input, db, agent>>

\* the loop of line 37 has a next file, and extract_from_file is at line 26
CanExtract ==
  /\ extractor.pc = "loop"
  /\ extractor.done < Len(extractor.files)
  /\ Len(returned) = extractor.done
  /\ th[Main].pc = "idle"

GlobFile == extractor.files[extractor.done + 1]

\* extract_from_file, lines 27-30: the elements are processed, or the
\* exception is printed and the result is {}
ExtractFromFile ==
  /\ extractor.pc = "loop"
  /\ Len(returned) = extractor.done + 1
  /\ th[Main].pc = "idle"
  /\ LET r == returned[extractor.done + 1]
     IN extractor' = [extractor EXCEPT
          !.pc = "update",
          !.file_functions =
            IF r.status = "return"
            THEN ProcessElements(r.analysis[1].elements, r.file_path, 1, EmptyDict)
            ELSE EmptyDict]
  /\ UNCHANGED <<current_class, imports, heap, th, returned, ncalls, hashseed, input, db, agent>>

\* extract_from_directory, line 40
ExUpdate ==
  /\ extractor.pc = "update"
  /\ extractor' = [extractor EXCEPT
       !.pc = "loop",
       !.done = @ + 1,
       !.file_functions = EmptyDict,
       !.all_functions = DictUpdate(extractor.all_functions, extractor.file_functions)]
  /\ UNCHANGED <<current_class, imports, heap, th, returned, ncalls, hashseed, input, db, agent>>

\* extract_from_directory, line 42
ExReturn ==
  /\ extractor.pc = "loop"
  /\ extractor.done = Len(extractor.files)
  /\ extractor' = [extractor EXCEPT !.pc = "done"]
  /\ UNCHANGED <<current_class, imports, heap, th, returned, ncalls, hashseed, input, db, agent>>

\* one call of extract_from_directory
NextDoc ==
  \/ ExtractFromDirectory
  \/ CanExtract /\ ParseFileRead(Main, 1, GlobFile)
  \/ AstParseSyntaxError(Main)
  \/ Step(Main)
  \/ ExtractFromFile
  \/ ExUpdate
  \/ ExReturn

SpecDoc == Init /\ [][NextDoc]_vars

(***************************************************************************)
(* analyze_project: the project row, then analyze_directory.               *)
(***************************************************************************)
\* create_project that returns an id without committing the row
CreateProject_NoCommit(name, description) == db

\* ProjectManager.create_project: insert and commit; the row gets the id
\* the agent then works with
CreateProject(name, description) ==
  [db EXCEPT !.projects = Append(@,
     [id |-> ProjectId, name |-> name, description |-> description])]

\* analyze_project, lines 165-172: the project is created
AnalyzeProject ==
  /\ agent.pc = "idle"
  /\ db' = CreateProject("demo", "")
  /\ agent' = [agent EXCEPT !.pc = "project"]
  /\ UNCHANGED <<current_class, imports, heap, th, returned, ncalls, hashseed, input, extractor>>

\* analyze_project, lines 186-191: create_project raised
AnalyzeProjectFailed ==
  /\ agent.pc = "idle"
  /\ agent' = [agent EXCEPT !.pc = "returned",
                            !.results = [status |-> "error",
                                         error |-> "connection refused",
                                         error_type |-> "OperationalError"]]
  /\ UNCHANGED <<current_class, imports, heap, th, returned, ncalls, hashseed, input, db, extractor>>

\* analyze_project, lines 178-184: the results of analyze_directory get the
\* project and are returned
ApReturn ==
  /\ agent.pc = "done"
  /\ agent' = [agent EXCEPT
       !.pc = "returned",
       !.results = DictUpdate(agent.results,
                     [project_id |-> ProjectId, project_name |-> "demo",
                      project_description |-> ""])]
  /\ UNCHANGED <<current_class, imports, heap, th, returned, ncalls, hashseed, input, db, extractor>>

\* one call of analyze_project
NextProject ==
  \/ AnalyzeProject
  \/ AnalyzeProjectFailed
  \/ agent.pc # "idle" /\ NextDir
  \/ ApReturn

SpecProject == Init /\ [][NextProject]_vars

(***************************************************************************)
(* What the claims speak of.                                               *)
(***************************************************************************)
\* the outcomes of the calls so far
Outcomes == {returned[n] : n \in 1..Len(returned)}

\* the calls that gave a FileAnalysis
Returned == {r \in Outcomes : r.status = "return"}

\* the elements of the FileAnalysis of r
ElementsOf(r) == r.analysis[1].elements

ElementSet(r) == {ElementsOf(r)[n] : n \in 1..Len(ElementsOf(r))}

CallableKinds == {"FunctionDef", "AsyncFunctionDef"}

\* the callables of a tree declared directly in the body of a class
MethodNodes(tree) ==
  {i \in 2..Len(tree) : tree[i].kind \in CallableKinds /\ tree[tree[i].parent].kind = "ClassDef"}

\* the callables of a tree with no class around them
FreeNodes(tree) ==
  {i \in 2..Len(tree) :
     /\ tree[i].kind \in CallableKinds
     /\ \A a \in Ancestors(tree, i) : tree[a].kind # "ClassDef"}

\* C1: every callable declared directly in the body of a class C is
\* emitted as a method with parent_class C and full_name C.<name>, and every
\* callable outside any class is emitted as a function.
C1_MethodsAndFunctions ==
  \A r \in Returned :
    LET tree == r.content.tree
    IN /\ \A i \in MethodNodes(tree) :
            \E e \in ElementSet(r) :
              /\ e.node = i
              /\ e.element_type = "method"
              /\ e.parent_class = tree[tree[i].parent].name
              /\ e.full_name = tree[tree[i].parent].name \o "." \o tree[i].name
       /\ \A i \in FreeNodes(tree) :
            \E e \in ElementSet(r) : e.node = i /\ e.element_type = "function"

\* C2: in every FileAnalysis, parent_class is set exactly for the methods,
\* a method's full_name is parent_class.name with parent_class non-empty,
\* and the full_name of a function or class is its name.
C2_ParentClassIffMethod ==
  \A r \in Returned :
    \A e \in ElementSet(r) :
      /\ (e.parent_class # None) <=> (e.element_type = "method")
      /\ e.element_type = "method" =>
           e.parent_class # "" /\ e.full_name = e.parent_class \o "." \o e.name
      /\ e.element_type \in {"function", "class"} => e.full_name = e.name

\* C2 witness: a FileAnalysis with a class element and the element of a
\* callable declared in that class's body
C2_Witness ==
  \E r \in Returned :
    \E e \in ElementSet(r), c \in ElementSet(r) :
      /\ e.node \in MethodNodes(r.content.tree)
      /\ c.element_type = "class"
      /\ c.node = r.content.tree[e.node].parent

\* C3: the elements of every FileAnalysis are in non-decreasing start_line
\* order.
C3_ElementsOrderedByLine ==
  \A r \in Returned :
    \A n \in 1..(Len(ElementsOf(r)) - 1) :
      ElementsOf(r)[n].start_line <= ElementsOf(r)[n + 1].start_line

\* C4: two calls with the same text give the same content_hash and equal
\* element lists, field by field.
C4_SameTextSameAnalysis ==
  \A r1 \in Returned, r2 \in Returned :
    r1.content = r2.content =>
      /\ r1.analysis[1].content_hash = r2.analysis[1].content_hash
      /\ ElementsOf(r1) = ElementsOf(r2)

\* the list the FileAnalysis of r holds as imports, as it is now
ImportsOf(r) == heap[r.analysis[1].imports]

\* the entries the import declarations of a tree stand for
OwnEntries(tree) ==
  {ImportEntry(tree[i], n) : <<i, n>> \in
     {<<j, m>> \in (1..Len(tree)) \X (1..2) :
        tree[j].kind \in ImportKinds /\ m <= Len(tree[j].names)}}

RECURSIVE CountAliases(_, _)
\* how many names the import declarations among the nodes S import
CountAliases(tree, S) ==
  IF S = {} THEN 0
  ELSE LET j == CHOOSE m \in S : TRUE
       IN (IF tree[j].kind \in ImportKinds THEN Len(tree[j].names) ELSE 0)
          + CountAliases(tree, S \ {j})

\* the imports of r are those of its own text, each once
OwnImportsOnly(r) ==
  /\ \A n \in 1..Len(ImportsOf(r)) : ImportsOf(r)[n] \in OwnEntries(r.content.tree)
  /\ Len(ImportsOf(r)) = CountAliases(r.content.tree, 1..Len(r.content.tree))

\* thread t is about to take the first node of ast.walk
StartsExtraction(t) == th[t].pc = "walk" /\ th[t].todo = <<1>>

\* C5: on one instance, whatever calls came before, a call starts its
\* extraction with current_class None and an empty import list, and every
\* FileAnalysis given out holds, then and later, the imports of its own
\* text only.
C5_ResetPerCall ==
  /\ StartsExtraction(Main) =>
       /\ current_class[th[Main].self] = None
       /\ heap[imports[th[Main].self]] = <<>>
  /\ \A r \in Returned : OwnImportsOnly(r)

\* C5 witness: a second call on the instance starts its extraction after a
\* first one gave out a FileAnalysis with imports
C5_Witness ==
  /\ StartsExtraction(Main)
  /\ \E r \in Returned : r.self = th[Main].self /\ ImportsOf(r) # <<>>

\* C6: when two parse_content calls on one instance interleave, each
\* FileAnalysis given out holds exactly the imports of its own text, and
\* keeps them.
C6_InterleavedCallsIsolated ==
  \A r \in Returned : OwnImportsOnly(r)

\* what made the call of r fail: the path, the bytes or the text
Cause(r) ==
  IF \E f \in Files : f.path = r.file_path /\ ~f.exists THEN "not-found"
  ELSE IF \E f \in Files : f.path = r.file_path /\ ~f.utf8 THEN "encoding"
  ELSE IF ~r.content.ok THEN "syntax"
  ELSE "none"

DefNodes(tree) == {i \in 1..Len(tree) : tree[i].kind \in DefKinds}

\* every call ended with a FileAnalysis of the whole tree or with an error
\* and nothing else
CompleteOrNothing ==
  \A r \in Outcomes :
    IF r.status = "return"
    THEN /\ Len(r.analysis) = 1
         /\ {e.node : e \in ElementSet(r)} = DefNodes(r.content.tree)
         /\ Len(ElementsOf(r)) = Cardinality(DefNodes(r.content.tree))
    ELSE r.analysis = <<>>

\* a step in which the call of the main thread fails on a syntax error
SyntaxFailureStep ==
  /\ th[Main].pc = "ast_parse"
  /\ ~th[Main].content.ok
  /\ Len(returned') = Len(returned) + 1

\* C8: a call gives a FileAnalysis of the whole tree or an error and
\* nothing; a parse_content that fails on a syntax error extracted no
\* element and leaves current_class and the import list as they were.
C8_AllOrNothing ==
  /\ [](CompleteOrNothing)
  /\ [][SyntaxFailureStep =>
          /\ th[Main].elements = <<>>
          /\ current_class' = current_class
          /\ imports' = imports
          /\ heap' = heap]_vars

\* C8 witness: a syntax failure on an instance whose import list holds
\* the entries of the call before
C8_Witness ==
  /\ Len(returned) = 2
  /\ returned[1].status = "return"
  /\ returned[2].status = "raise" /\ returned[2].exc = "ValueError"
  /\ returned[2].self = returned[1].self
  /\ heap[imports[returned[2].self]] # <<>>

RECURSIVE SumOperands(_, _)
\* the sum of k - 1 over the boolean expressions among the nodes S
SumOperands(tree, S) ==
  IF S = {} THEN 0
  ELSE LET j == CHOOSE m \in S : TRUE
       IN (IF tree[j].kind = "BoolOp" THEN tree[j].k - 1 ELSE 0)
          + SumOperands(tree, S \ {j})

\* the score of C9: conditionals, loops, handling blocks and resource
\* blocks, sync or async, the operands and the handlers
ClaimedComplexity(tree, i) ==
  LET below == Descendants(tree, i)
  IN 1 + Cardinality({j \in below : tree[j].kind \in BlockKinds})
       + SumOperands(tree, below)
       + Cardinality({j \in below : tree[j].kind = "ExceptHandler"})

\* C9: the complexity_score of every callable is 1 plus its conditionals,
\* loops, exception-handling and resource-scope blocks, sync or async, plus
\* k - 1 for each boolean expression of k operands, plus its handlers.
C9_ComplexityFormula ==
  \A r \in Returned :
    \A e \in ElementSet(r) :
      e.element_type # "class" =>
        e.complexity_score = ClaimedComplexity(r.content.tree, e.node)

\* no branching, looping, exception or boolean-chain construct below node i
ConstructFree(tree, i) ==
  \A j \in Descendants(tree, i) :
    tree[j].kind \notin (BlockKinds \cup {"BoolOp", "ExceptHandler"})

CallableElements(r) == {e \in ElementSet(r) : e.element_type # "class"}

\* the ast node an element of r was built from
NodeOf(r, e) == r.content.tree[e.node]

Char(name, n) == SubSeq(name, n, n)

StartsDouble(name) ==
  Len(name) >= 2 /\ Char(name, 1) = "_" /\ Char(name, 2) = "_"

EndsDouble(name) ==
  Len(name) >= 2 /\ Char(name, Len(name) - 1) = "_" /\ Char(name, Len(name)) = "_"

\* C11: every element has a visibility, and it is 'public' for a name that
\* starts and ends with a double underscore, else 'private' for a name that
\* starts with a double underscore, else 'protected' for a name that starts
\* with an underscore, else 'public'.
C11_VisibilityByName ==
  \A r \in Returned : \A e \in ElementSet(r) :
    e.visibility =
      IF StartsDouble(e.name) /\ EndsDouble(e.name) THEN "public"
      ELSE IF StartsDouble(e.name) THEN "private"
      ELSE IF Char(e.name, 1) = "_" THEN "protected"
      ELSE "public"

\* a private name that also ends with an underscore was given its visibility
C11_Witness ==
  \E r \in Returned : \E e \in CallableElements(r) :
    /\ StartsDouble(e.name) /\ ~EndsDouble(e.name)
    /\ Char(e.name, Len(e.name)) = "_"
    /\ e.visibility = "private"

\* the j-th positional parameter as the claim renders it: with the default
\* the right alignment gives it, or with none
ClaimedParam(args, j) ==
  LET first == Len(args.args) - Len(args.defaults)
  IN IF j - 1 >= first
     THEN ArgStr("", args.args[j]) \o " = "
            \o GetDefaultValue(args.defaults[(j - 1) - first + 1])
     ELSE ArgStr("", args.args[j])

ClaimedSignature(node, is_async) ==
  LET params == [j \in 1..Len(node.args.args) |-> ClaimedParam(node.args, j)]
      vararg == IF node.args.vararg # <<>>
                THEN <<ArgStr("*", node.args.vararg[1])>> ELSE <<>>
      kwarg == IF node.args.kwarg # <<>>
               THEN <<ArgStr("**", node.args.kwarg[1])>> ELSE <<>>
  IN (IF is_async THEN "async def " ELSE "def ") \o node.name \o "("
       \o JoinStr(params \o vararg \o kwarg, ", ") \o ")"
       \o (IF node.returns # <<>> THEN " -> " \o GetAnnotation(node.returns[1]) ELSE "")
       \o ":"

\* C12: every callable the grammar accepts gets a signature, and in it the
\* positional parameters P-D .. P-1 carry one default each, the i-th default
\* on parameter P-D+i, and no other parameter carries one.
C12_DefaultsRightAligned ==
  /\ \A r \in Outcomes : r.content.ok => r.status = "return"
  /\ \A r \in Returned : \A e \in CallableElements(r) :
       e.signature = ClaimedSignature(NodeOf(r, e), e.is_async)

\* the pieces between the parentheses, in the order the claim gives them
ClaimedPieces(node) ==
  [j \in 1..Len(node.args.args) |-> node.args.args[j].arg]
    \o (IF node.args.vararg # <<>> THEN <<"*" \o node.args.vararg[1].arg>> ELSE <<>>)
    \o (IF node.args.kwarg # <<>> THEN <<"**" \o node.args.kwarg[1].arg>> ELSE <<>>)

ClassElements(r) == {e \in ElementSet(r) : e.element_type = "class"}

\* the name a base-class expression resolves to: an identifier, a dotted
\* chain, or the name of the class that is subscripted
BaseClassName(tree, b) ==
  IF tree[b].kind = "Subscript"
  THEN GetAttributeChain(tree, FieldChild(tree, b, "value"))
  ELSE GetAttributeChain(tree, b)

\* C15: a class signature is 'class Name:' without bases and
\* 'class Name(Base1, Base2):' with the names of its bases in declaration
\* order, and the dependencies of the class are those names.
C15_ClassSignature ==
  \A r \in Returned : \A e \in ClassElements(r) :
    LET tree == r.content.tree
        bases == FieldSeq(tree, e.node, "bases")
        names == [n \in 1..Len(bases) |-> BaseClassName(tree, bases[n])]
    IN /\ e.signature = IF bases = <<>>
                        THEN "class " \o e.name \o ":"
                        ELSE "class " \o e.name \o "(" \o JoinStr(names, ", ") \o "):"
       /\ e.dependencies = names

\* C16: no name occurs twice in the dependencies of an element, be it a
\* function, a method or a class.
C16_DependenciesDeduplicated ==
  \A r \in Returned : \A e \in ElementSet(r) :
    \A m, n \in 1..Len(e.dependencies) :
      e.dependencies[m] = e.dependencies[n] => m = n

ImportNodes(tree) == {j \in 1..Len(tree) : tree[j].kind \in ImportKinds}

\* the entry the claim gives the n-th name of an import declaration
ClaimedEntry(node, n) ==
  IF node.kind = "Import" THEN node.names[n]
  ELSE IF node.names[n] = "*" THEN node.name \o ".*"
  ELSE node.name \o "." \o node.names[n]

RECURSIVE EntriesByLine(_, _)
\* the entries of the declarations S in the order they are written
EntriesByLine(tree, S) ==
  IF S = {} THEN <<>>
  ELSE LET j == CHOOSE m \in S : \A o \in S :
                  \/ tree[m].line < tree[o].line
                  \/ tree[m].line = tree[o].line /\ m <= o
       IN [n \in 1..Len(tree[j].names) |-> ClaimedEntry(tree[j], n)]
            \o EntriesByLine(tree, S \ {j})

\* C17: the imports list is, for the import declarations it records, their
\* entries in declaration order, one per imported name, duplicates kept:
\* 'm' for import m, 'module.name' for from module import name, 'module.*'
\* for a wildcard.
C17_ImportsInDeclarationOrder ==
  \A r \in Returned :
    \E S \in SUBSET ImportNodes(r.content.tree) :
      ImportsOf(r) = EntriesByLine(r.content.tree, S)

\* the import declarations outside every function and class body
ModuleScopeImports(tree) ==
  {j \in ImportNodes(tree) : \A a \in Ancestors(tree, j) : tree[a].kind \notin DefKinds}

\* C18: the imports list has the entries of the module-scope declarations
\* only: an import in a function body or a class body adds none.
C18_ModuleScopeImportsOnly ==
  \A r \in Returned :
    /\ Len(ImportsOf(r)) <= CountAliases(r.content.tree, ModuleScopeImports(r.content.tree))
    /\ \A n \in 1..Len(ImportsOf(r)) :
         \E j \in ModuleScopeImports(r.content.tree) :
           \E m \in 1..Len(r.content.tree[j].names) :
             ImportsOf(r)[n] = ClaimedEntry(r.content.tree[j], m)

(***************************************************************************)
(* The fingerprint of a file.                                              *)
(***************************************************************************)
\* the analyses parse_file gave, each with the file it was given
FileAnalyses ==
  {<<r, f>> \in Returned \X Files : r.file_path = f.path}

\* C19: through parse_file, two files have the same content_hash exactly
\* when they have the same bytes (line terminators included), and file_size
\* is the number of bytes of the file.
C19_HashOfExactBytes ==
  /\ \A x, y \in FileAnalyses :
       x[1].analysis[1].content_hash = y[1].analysis[1].content_hash
         <=> FileBytes(x[2]) = FileBytes(y[2])
  /\ \A x \in FileAnalyses :
       x[1].analysis[1].file_size = ByteLen(FileBytes(x[2]))

(***************************************************************************)
(* The bookkeeping of analyze_directory.                                   *)
(***************************************************************************)
RECURSIVE ElementsFound(_)
\* the sum of elements_found over the successful results
ElementsFound(file_results) ==
  IF file_results = <<>> THEN 0
  ELSE (IF Head(file_results).status = "success"
        THEN Head(file_results).elements_found ELSE 0)
       + ElementsFound(Tail(file_results))

\* the loop is between two iterations, or over
BetweenIterations ==
  agent.pc \in {"loop", "done"} /\ agent.results.status = "success"

Bookkeeping ==
  BetweenIterations =>
    /\ agent.results.files_analyzed + agent.results.files_failed = agent.done
    /\ Len(agent.results.file_results) = agent.done
    /\ Len(agent.results.errors) = agent.results.files_failed
    /\ agent.results.total_elements = ElementsFound(agent.results.file_results)

\* analyze_directory has returned the results of a directory that exists
DirectoryDone == agent.pc = "done" /\ agent.results.status = "success"

\* C20: after every iteration of the loop of analyze_directory
\* files_analyzed + files_failed is the number of files processed and the
\* length of file_results, len(errors) is files_failed and total_elements
\* is the sum of elements_found over the successes; the call returns, and
\* when it does every listed file was attempted.
C20_DirectoryBookkeeping ==
  /\ [](Bookkeeping)
  /\ [](DirectoryDone => /\ agent.done = Len(agent.python_files)
                         /\ Len(returned) = Len(agent.python_files))
  /\ <>Returned_Dir

\* after two iterations one file has failed and one has given two elements
C20_Witness ==
  /\ agent.pc = "loop"
  /\ agent.done = 2
  /\ agent.results.files_analyzed = 1
  /\ agent.results.files_failed = 1
  /\ agent.results.total_elements = 2
  /\ agent.results.file_results[1].status = "error"

(***************************************************************************)
(* The scope slot.                                                         *)
(***************************************************************************)
\* the step in which thread t enters _extract_class (line 164 runs)
EntersClass(t) == th[t].pc = "cls_save" /\ th'[t].pc = "cls_set"

\* the step in which _extract_class of thread t returns
LeavesClass(t) == th[t].pc = "cls_restore" /\ th'[t].pc = "walk"

\* a step inside _extract_class of thread t
InsideClass(t) == th[t].pc = "cls_set" /\ th'[t].pc = "cls_restore"

\* the step in which parse_content of thread t returns its FileAnalysis
ParseContentReturns(t) ==
  /\ th[t].pc = "walk"
  /\ Len(returned') = Len(returned) + 1
  /\ returned'[Len(returned')].status = "return"

\* the classes of a tree declared inside another class
NestedClasses(tree) ==
  {i \in 2..Len(tree) :
     /\ tree[i].kind = "ClassDef"
     /\ \E a \in Ancestors(tree, tree[i].parent) : tree[a].kind = "ClassDef"}

\* C21: a call of _extract_class takes the value current_class has when it
\* is entered as old_class, keeps it, and leaves current_class equal to it,
\* however deep the class is nested; when parse_content returns,
\* current_class is None.
C21_SaveRestore ==
  /\ [][EntersClass(Main) =>
          th'[Main].old_class = current_class[th[Main].self]]_vars
  /\ [][InsideClass(Main) => th'[Main].old_class = th[Main].old_class]_vars
  /\ [][LeavesClass(Main) =>
          current_class'[th[Main].self] = th[Main].old_class]_vars
  /\ [][ParseContentReturns(Main) => current_class'[th[Main].self] = None]_vars

\* C21 witness: _extract_class has returned for a class nested in a class,
\* and the slot holds None again
C21_Witness ==
  /\ th[Main].pc = "walk"
  /\ current_class[th[Main].self] = None
  /\ \E n \in 1..Len(th[Main].elements) :
       th[Main].elements[n].node \in NestedClasses(th[Main].tree)

(***************************************************************************)
(* The result of analyze_file.                                             *)
(***************************************************************************)
\* analyze_file has its result, which the loop has not counted yet
HasResult == agent.pc = "record" /\ Len(agent.result) = 1

\* the text of a file is one parse_content cannot get through
CrashesParser(content) ==
  /\ content.ok
  /\ \E i \in 1..Len(content.tree) :
       /\ content.tree[i].kind \in CallableKinds
       /\ Len(content.tree[i].args.defaults) > Len(content.tree[i].args.args)

\* the error_type each kind of failure is reported with
ClaimedErrorType(file, parsed) ==
  IF ~file.exists THEN "FileNotFoundError"
  ELSE IF ~file.utf8 THEN "UnicodeDecodeError"
  ELSE IF ~file.text.ok THEN "ValueError"
  ELSE IF CrashesParser(file.text) THEN "IndexError"
  ELSE IF parsed THEN "OperationalError"
  ELSE "none"

\* the file row and one row for every element of the analysis are stored
\* for the call under way
AllStored(analysis) ==
  /\ agent.file_id \in 1..Len(db.code_files)
  /\ db.code_files[agent.file_id].file_path = analysis.file_path
  /\ db.code_files[agent.file_id].project_id = ProjectId
  /\ Len(agent.element_ids) = Len(analysis.elements)
  /\ \A k \in 1..Len(agent.element_ids) :
       /\ agent.element_ids[k] \in 1..Len(db.code_elements)
       /\ db.code_elements[agent.element_ids[k]].file_id = agent.file_id
       /\ db.code_elements[agent.element_ids[k]].full_name = analysis.elements[k].full_name
       /\ db.code_elements[agent.element_ids[k]].signature = analysis.elements[k].signature

\* the result of the call under way is what C22 says of it
ResultAsClaimed ==
  LET res == agent.result[1]
      out == returned[agent.done + 1]
      parsed == out.status = "return"
  IN /\ res.status \in {"success", "error"}
     /\ res.file_path = NextFile.path
     /\ res.status = "success" <=> (parsed /\ AllStored(out.analysis[1]))
     /\ res.status = "error" =>
          /\ res.error # ""
          /\ res.error_type = ClaimedErrorType(NextFile, parsed)

\* a call of analyze_file is under way
InAnalyzeFile ==
  agent.pc \in {"loop", "store_elements"} /\ agent.done < Len(agent.python_files)

\* C22: every call of analyze_file ends by returning a dictionary; its
\* status is success exactly when the file was parsed and the file row and
\* every element row are stored, and otherwise it is error with a message
\* and the error_type of the kind of failure: missing path, syntax,
\* encoding, storage.
C22_AnalyzeFileNeverRaises ==
  /\ [](HasResult => ResultAsClaimed)
  /\ (InAnalyzeFile ~> HasResult)

\* C22 witness: the database refused an element after the file row and an
\* element were stored, and the call returned the error
C22_Witness ==
  /\ HasResult
  /\ agent.result[1].status = "error"
  /\ agent.result[1].error_type = "OperationalError"
  /\ agent.file_id # 0
  /\ Len(agent.element_ids) = 1

(***************************************************************************)
(* The dependencies of a callable.                                         *)
(***************************************************************************)
\* the nodes of the body of definition i: its statements and all below them
BodyNodes(tree, i) ==
  UNION {Descendants(tree, j) : j \in {c \in Children(tree, i) : tree[c].field = "body"}}

\* the nodes of the header of definition i: decorators and what they hold
HeaderNodes(tree, i) == (Descendants(tree, i) \ {i}) \ BodyNodes(tree, i)

\* the names C23 says are the dependencies: the targets of the calls of the
\* body and the chains of its attribute references
ClaimedDependencies(tree, i) ==
  {GetCallName(tree, FieldChild(tree, j, "func")) :
     j \in {c \in BodyNodes(tree, i) : tree[c].kind = "Call"}}
  \cup {GetAttributeChain(tree, j) :
     j \in {c \in BodyNodes(tree, i) : tree[c].kind = "Attribute"}}

\* the names of a list
Range(s) == {s[n] : n \in 1..Len(s)}

\* C23: the dependencies of every callable are the targets of the calls in
\* its body (identifier or dotted chain) and the dotted chains of the
\* attribute references in its body, and never the empty string.
C23_DependenciesOfBody ==
  \A r \in Returned :
    \A e \in CallableElements(r) :
      /\ Range(e.dependencies) = ClaimedDependencies(r.content.tree, e.node) \ {""}
      /\ "" \notin Range(e.dependencies)

(***************************************************************************)
(* The keys of the docstring extractor.                                    *)
(***************************************************************************)
\* the callables with a docstring in the files extract_from_directory read
Documented ==
  UNION {{<<n, i>> : i \in {j \in 1..Len(returned[n].content.tree) :
                            /\ returned[n].content.tree[j].kind \in CallableKinds
                            /\ GetDocstring(returned[n].content.tree[j]) # ""}} :
           n \in {m \in 1..Len(extractor.files) : returned[m].status = "return"}}

\* extract_from_directory has returned
ExtractionDone == extractor.pc = "done"

\* C24: when extract_from_directory returns, the dictionary has one entry
\* for every function or method with a docstring in the files it read: no
\* two of them got the same key.
C24_KeysUnique ==
  ExtractionDone =>
    /\ Cardinality(DOMAIN extractor.all_functions) = Cardinality(Documented)
    /\ \A d \in Documented :
         \E key \in DOMAIN extractor.all_functions :
           LET m == extractor.all_functions[key].metadata
           IN /\ m.file_path = returned[d[1]].file_path
              /\ m.start_line = returned[d[1]].content.tree[d[2]].line

(***************************************************************************)
(* One element for every definition.                                       *)
(***************************************************************************)
\* the positions in the elements of r that hold the element of node i
EmittedAt(r, i) == {n \in 1..Len(ElementsOf(r)) : ElementsOf(r)[n].node = i}

\* C25: the elements of every FileAnalysis are one element for every
\* function, async function and class declaration of the tree, at whatever
\* depth: as many elements as such nodes, none twice, an async function as
\* an async element only.
C25_OneElementPerDefinition ==
  \A r \in Returned :
    LET tree == r.content.tree
    IN /\ Len(ElementsOf(r)) = Cardinality(DefNodes(tree))
       /\ \A n \in 1..Len(ElementsOf(r)) : ElementsOf(r)[n].node \in DefNodes(tree)
       /\ \A i \in DefNodes(tree) :
            /\ Cardinality(EmittedAt(r, i)) = 1
            /\ \A n \in EmittedAt(r, i) :
                 /\ ElementsOf(r)[n].name = tree[i].name
                 /\ ElementsOf(r)[n].is_async = (tree[i].kind = "AsyncFunctionDef")
                 /\ (ElementsOf(r)[n].element_type = "class") = (tree[i].kind = "ClassDef")

\* C25 witness: a FileAnalysis of a tree with an async function declared in
\* a definition that is itself declared in a definition
C25_Witness ==
  \E r \in Returned :
    \E e \in ElementSet(r) :
      LET tree == r.content.tree
      IN /\ e.is_async
         /\ tree[tree[e.node].parent].kind \in DefKinds
         /\ tree[tree[tree[e.node].parent].parent].kind \in DefKinds

(***************************************************************************)
(* The two derivations of defaults.                                        *)
(***************************************************************************)
\* the j-th positional parameter rendered from its parameters record:
\* ' = d' exactly when the record is not required and has default d
RenderedFromRecord(node, record, j) ==
  ArgStr("", node.args.args[j])
    \o (IF ~record.required /\ record.default # <<>>
        THEN " = " \o record.default[1] ELSE "")

\* the signature whose positional parameters are rendered from the records
SignatureFromRecords(node, e) ==
  LET params == [j \in 1..Len(e.parameters) |->
                   RenderedFromRecord(node, e.parameters[j], j)]
      vararg == IF node.args.vararg # <<>>
                THEN <<ArgStr("*", node.args.vararg[1])>> ELSE <<>>
      kwarg == IF node.args.kwarg # <<>>
               THEN <<ArgStr("**", node.args.kwarg[1])>> ELSE <<>>
  IN (IF e.is_async THEN "async def " ELSE "def ") \o node.name \o "("
       \o JoinStr(params \o vararg \o kwarg, ", ") \o ")"
       \o (IF node.returns # <<>> THEN " -> " \o GetAnnotation(node.returns[1]) ELSE "")
       \o ":"

\* C26: for every callable, positional-only parameters with defaults
\* included, a parameter is rendered with ' = d' in the signature exactly
\* when its parameters record has required false and default d.
C26_DefaultsAgree ==
  \A r \in Returned : \A e \in CallableElements(r) :
    /\ Len(e.parameters) = Len(NodeOf(r, e).args.args)
    /\ \A j \in 1..Len(e.parameters) :
         e.parameters[j].required = (e.parameters[j].default = <<>>)
    /\ e.signature = SignatureFromRecords(NodeOf(r, e), e)

(***************************************************************************)
(* The complexity of a callable that holds callables.                      *)
(***************************************************************************)
\* the callables the body of node i holds directly
DirectCallables(tree, i) ==
  {g \in Children(tree, i) : tree[g].field = "body" /\ tree[g].kind \in CallableKinds}

\* the score the FileAnalysis of r gives the callable of node i
ScoreOf(r, i) ==
  (CHOOSE e \in ElementSet(r) : e.node = i).complexity_score

RECURSIVE SumNested(_, _)
\* the sum of complexity - 1 over the callables S
SumNested(r, S) ==
  IF S = {} THEN 0
  ELSE LET g == CHOOSE m \in S : TRUE
       IN (ScoreOf(r, g) - 1) + SumNested(r, S \ {g})

\* what the constructs of node i outside the callables S add
ConstructsOutside(tree, i, S) ==
  SumComplexity(tree, Descendants(tree, i) \ UNION {Descendants(tree, g) : g \in S})

\* C27: the complexity of a callable F is 1, plus the constructs of F
\* outside the callables G1..Gn its body holds directly, plus complexity - 1
\* of every Gi; so it is at least the complexity of every Gi.
C27_NestedComplexity ==
  \A r \in Returned :
    \A e \in CallableElements(r) :
      LET tree == r.content.tree
          inner == DirectCallables(tree, e.node)
      IN /\ e.complexity_score
              = 1 + ConstructsOutside(tree, e.node, inner) + SumNested(r, inner)
         /\ \A g \in inner : e.complexity_score >= ScoreOf(r, g)

\* C27 witness: a callable whose body holds a callable that scores more
\* than 1
C27_Witness ==
  \E r \in Returned :
    \E e \in CallableElements(r) :
      \E g \in DirectCallables(r.content.tree, e.node) :
        ScoreOf(r, g) > 1 /\ e.complexity_score >= ScoreOf(r, g)

(***************************************************************************)
(* The order in which analyze_file stores.                                 *)
(***************************************************************************)
\* a step that commits a row to code_elements
StoresElement == Len(db'.code_elements) > Len(db.code_elements)

\* no committed row is lost or changed by the step, but for the row of a
\* file that add_file writes again
NothingRolledBack ==
  /\ Len(db'.code_elements) >= Len(db.code_elements)
  /\ SubSeq(db'.code_elements, 1, Len(db.code_elements)) = db.code_elements
  /\ Len(db'.code_files) >= Len(db.code_files)
  /\ \A n \in 1..Len(db.code_files) :
       /\ db'.code_files[n].file_path = db.code_files[n].file_path
       /\ db'.code_files[n].project_id = db.code_files[n].project_id

\* the file row of the call under way and the rows of its first elements,
\* as many as element_ids holds, are stored, in list order
StoredSoFar(analysis) ==
  /\ agent.file_id \in 1..Len(db.code_files)
  /\ db.code_files[agent.file_id].file_path = analysis.file_path
  /\ \A k \in 1..Len(agent.element_ids) :
       /\ agent.element_ids[k] \in 1..Len(db.code_elements)
       /\ k > 1 => agent.element_ids[k] > agent.element_ids[k - 1]
       /\ db.code_elements[agent.element_ids[k]].file_id = agent.file_id
       /\ db.code_elements[agent.element_ids[k]].full_name = analysis.elements[k].full_name
       /\ db.code_elements[agent.element_ids[k]].signature = analysis.elements[k].signature

\* storing failed in the call under way, which has its error result
StorageFailed ==
  /\ HasResult
  /\ agent.result[1].status = "error"
  /\ returned[agent.done + 1].status = "return"

\* C28: analyze_file stores the file row first and then the elements one by
\* one in list order, each committed by itself; when storing element k
\* fails the result is an error, the file row and elements 1..k-1 are still
\* stored, and no step takes a committed row back.
C28_StoredInOrderNoRollback ==
  /\ [][StoresElement =>
          /\ agent.pc = "store_elements"
          /\ StoredSoFar(returned[agent.done + 1].analysis[1])
          /\ Len(db'.code_elements) = Len(db.code_elements) + 1
          /\ agent'.element_ids = Append(agent.element_ids, Len(db'.code_elements))]_vars
  /\ [][NothingRolledBack]_vars
  /\ [](StorageFailed =>
          /\ Len(agent.element_ids) < Len(returned[agent.done + 1].analysis[1].elements)
          /\ agent.file_id # 0 => StoredSoFar(returned[agent.done + 1].analysis[1]))

\* C28 witness: storing the second element of a file failed, and the call
\* of analyze_directory returned with the file row and the first element
\* in the database
C28_Witness ==
  /\ agent.pc = "done"
  /\ Len(agent.python_files) = 1
  /\ agent.results.files_failed = 1
  /\ agent.results.errors[1].error_type = "OperationalError"
  /\ Len(db.code_files) = 1
  /\ Len(db.code_elements) = 1

(***************************************************************************)
(* A file analysed again.                                                  *)
(***************************************************************************)
\* the rows of code_files for a path of the project
FileRows(file_path) ==
  {n \in 1..Len(db.code_files) :
     db.code_files[n].project_id = ProjectId /\ db.code_files[n].file_path = file_path}

\* the rows of code_elements of a file
ElementRows(file_id) ==
  {n \in 1..Len(db.code_elements) : db.code_elements[n].file_id = file_id}

\* the results analyze_file gave for a path, by position in file_results
ResultsFor(file_path) ==
  IF agent.results.status = "success"
  THEN {n \in 1..Len(agent.results.file_results) :
          agent.results.file_results[n].file_path = file_path}
  ELSE {}

\* every analysis of the path succeeded
AllSucceeded(file_path) ==
  \A n \in ResultsFor(file_path) : agent.results.file_results[n].status = "success"

\* C29: however often a path is analysed in one project it has one row in
\* code_files, and every analysis gets the id of that row; every analysis
\* inserts its elements anew and removes none, so after n successful
\* analyses the file has n times as many element rows as elements.
C29_OneFileRowManyElementRows ==
  \A f \in DirFiles :
    /\ Cardinality(FileRows(f.path)) <= 1
    /\ \A n \in ResultsFor(f.path) :
         LET res == agent.results.file_results[n]
         IN res.status = "success" =>
              /\ FileRows(f.path) = {res.file_id}
              /\ AllSucceeded(f.path) /\ BetweenIterations =>
                   Cardinality(ElementRows(res.file_id))
                     = Cardinality(ResultsFor(f.path)) * res.elements_found

\* C29 witness: a file with two elements was analysed twice, and has one
\* file row and four element rows
C29_Witness ==
  /\ agent.pc = "done"
  /\ \E f \in DirFiles :
       /\ Cardinality(ResultsFor(f.path)) = 2
       /\ AllSucceeded(f.path)
       /\ Cardinality(FileRows(f.path)) = 1
       /\ \A n \in FileRows(f.path) : Cardinality(ElementRows(n)) = 4

(***************************************************************************)
(* The project record.                                                     *)
(***************************************************************************)
\* the project row is committed
ProjectStored ==
  \E n \in 1..Len(db.projects) : db.projects[n].id = ProjectId

\* analyze_project has returned
ProjectReturned == agent.pc = "returned"

\* create_project failed in the call that has returned
CreationFailed == ProjectReturned /\ "error_type" \in DOMAIN agent.results

\* the directory did not exist in the call that has returned
DirectoryMissing ==
  /\ ProjectReturned
  /\ agent.results.status = "error"
  /\ "error_type" \notin DOMAIN agent.results

\* a step in which the directory is examined or a file is analysed
ExaminesDirectory ==
  \/ agent.pc = "project" /\ agent'.pc # "project"
  \/ ncalls' > ncalls
  \/ db'.code_files # db.code_files
  \/ db'.code_elements # db.code_elements

\* C30: analyze_project has the project row committed before the directory
\* is examined; when creating the project fails no file is analysed and the
\* result is an error; when the directory does not exist the result is an
\* error that carries project_id, and the project row stays stored.
C30_ProjectBeforeDirectory ==
  /\ [][ExaminesDirectory => ProjectStored]_vars
  /\ [][Len(db'.projects) >= Len(db.projects)]_vars
  /\ [](CreationFailed =>
          /\ agent.results.status = "error"
          /\ ncalls = 0 /\ returned = <<>>
          /\ db = EmptyDb)
  /\ [](DirectoryMissing =>
          /\ "project_id" \in DOMAIN agent.results
          /\ agent.results.project_id = ProjectId
          /\ ProjectStored
          /\ ncalls = 0)

\* C30 witness: analyze_project returned an error for a directory that
\* does not exist, with the project_id of the row it created
C30_Witness ==
  /\ DirectoryMissing
  /\ agent.results.error = "Directory not found: src"
  /\ agent.results.project_id = ProjectId
  /\ Len(db.projects) = 1
====
